---- MODULE Spec2Model ----
(***************************************************************************)
(* Model of the intent-routing and response-composition pipeline of the    *)
(* AI Trip Planner backend: the chat message service, the response         *)
(* orchestrator (OpenAIService), the location resolver, the Amadeus        *)
(* provider adapter and the booking controller.                            *)
(*                                                                         *)
(* Text is modelled by TLA+ strings; TLC evaluates Len, SubSeq and \o on   *)
(* strings, so the string functions of the source (toLowerCase, includes,  *)
(* trim, substring, the regular expressions) are computed character by     *)
(* character.  The input alphabet is letters, digits and the space, so a   *)
(* regular-expression word boundary is a token boundary.                   *)
(***************************************************************************)
EXTENDS Integers, Sequences, FiniteSets, TLC

(***************************************************************************)
(* String primitives (JavaScript String.prototype).                        *)
(***************************************************************************)
UpperAlphabet == "ABCDEFGHIJKLMNOPQRSTUVWXYZ"

LowerAlphabet == "abcdefghijklmnopqrstuvwxyz"

DigitChars == "0123456789"

\* s.slice(a - 1, b): the characters a..b of s that exist.
slice(s, a, b) ==
    IF a > b \/ a > Len(s) \/ b < 1 THEN ""
    ELSE SubSeq(s, IF a < 1 THEN 1 ELSE a, IF b > Len(s) THEN Len(s) ELSE b)

\* s.charAt(i - 1)
CharAt(s, i) == IF i < 1 \/ i > Len(s) THEN "" ELSE SubSeq(s, i, i)

CharIn(c, alphabet) == \E i \in 1..Len(alphabet) : CharAt(alphabet, i) = c

isUpper(c) == CharIn(c, UpperAlphabet)

isLetter(c) == CharIn(c, UpperAlphabet) \/ CharIn(c, LowerAlphabet)

isDigit(c) == CharIn(c, DigitChars)

toLowerChar(c) ==
    IF isUpper(c)
    THEN CharAt(LowerAlphabet, CHOOSE i \in 1..Len(UpperAlphabet) : CharAt(UpperAlphabet, i) = c)
    ELSE c

toUpperChar(c) ==
    IF CharIn(c, LowerAlphabet)
    THEN CharAt(UpperAlphabet, CHOOSE i \in 1..Len(LowerAlphabet) : CharAt(LowerAlphabet, i) = c)
    ELSE c

RECURSIVE toLowerCase(_)
toLowerCase(s) ==
    IF s = "" THEN "" ELSE toLowerChar(CharAt(s, 1)) \o toLowerCase(slice(s, 2, Len(s)))

RECURSIVE toUpperCase(_)
toUpperCase(s) ==
    IF s = "" THEN "" ELSE toUpperChar(CharAt(s, 1)) \o toUpperCase(slice(s, 2, Len(s)))

\* String.prototype.includes
includes(s, sub) ==
    \E i \in 0..(Len(s) - Len(sub)) : slice(s, i + 1, i + Len(sub)) = sub

startsWith(s, prefix) ==
    Len(prefix) <= Len(s) /\ slice(s, 1, Len(prefix)) = prefix

endsWith(s, suffix) ==
    Len(suffix) <= Len(s) /\ slice(s, Len(s) - Len(suffix) + 1, Len(s)) = suffix

\* String.prototype.substring(0, n)
substring0(s, n) == slice(s, 1, n)

RECURSIVE trimStart(_)
trimStart(s) ==
    IF s # "" /\ CharAt(s, 1) = " " THEN trimStart(slice(s, 2, Len(s))) ELSE s

RECURSIVE trimEnd(_)
trimEnd(s) ==
    IF s # "" /\ CharAt(s, Len(s)) = " " THEN trimEnd(slice(s, 1, Len(s) - 1)) ELSE s

trim(s) == trimEnd(trimStart(s))

\* The whitespace-separated tokens of s, in order (s.split(/\s+/) without empty tokens).
RECURSIVE tokensFrom(_, _, _)
tokensFrom(s, i, cur) ==
    IF i > Len(s)
    THEN (IF cur = "" THEN << >> ELSE << cur >>)
    ELSE IF CharAt(s, i) = " "
         THEN (IF cur = "" THEN << >> ELSE << cur >>) \o tokensFrom(s, i + 1, "")
         ELSE tokensFrom(s, i + 1, cur \o CharAt(s, i))

tokens(s) == tokensFrom(s, 1, "")

RECURSIVE join(_)
join(ws) ==
    IF ws = << >> THEN ""
    ELSE IF Len(ws) = 1 THEN ws[1]
    ELSE ws[1] \o " " \o join(Tail(ws))

(***************************************************************************)
(* Regular expressions of detectTravelIntent over the tokens of the        *)
(* lower-cased message.  Every pattern there starts with \b, separates its *)
(* words by \s+ and ends with \b, so on letters, digits and spaces it      *)
(* matches whole tokens.                                                   *)
(***************************************************************************)
\* \b(?:v1|v2|looking for|...)\s+ : the token indexes right after a verb phrase
\* that starts at token i
afterVerb(t, i, verbs) ==
    (IF t[i] \in verbs THEN {i + 1} ELSE {})
    \cup (IF "looking for" \in verbs /\ t[i] = "looking" /\ i + 1 <= Len(t) /\ t[i + 1] = "for"
          THEN {i + 2} ELSE {})

\* \b(?:verbs)\s+(?:a\s+)?(?:nouns)\b
matchVerbNoun(t, verbs, nouns) ==
    \E i \in 1..Len(t) : \E k \in afterVerb(t, i, verbs) :
        \/ k <= Len(t) /\ t[k] \in nouns
        \/ k + 1 <= Len(t) /\ t[k] = "a" /\ t[k + 1] \in nouns

\* \b(?:heads)\s+(?:seps1)\s+([\w\s]+)\s+(?:seps2)\s+([\w\s]+)\b
matchRoute(t, heads, seps1, seps2) ==
    \E i \in 1..Len(t) :
        /\ t[i] \in heads
        /\ i + 1 <= Len(t) /\ t[i + 1] \in seps1
        /\ \E j \in (i + 3)..(Len(t) - 1) : t[j] \in seps2

\* \b(?:heads)\s+(?:preps)\s+([\w\s]+)\b
matchPlace(t, heads, preps) ==
    \E i \in 1..Len(t) :
        t[i] \in heads /\ i + 2 <= Len(t) /\ t[i + 1] \in preps

\* \b(?:heads)\s+(?:nouns)\b
matchPair(t, heads, nouns) ==
    \E i \in 1..Len(t) : t[i] \in heads /\ i + 1 <= Len(t) /\ t[i + 1] \in nouns

flightNouns == {"flight", "flights"}

hotelNouns == {"hotel", "hotels"}

greetingPatterns(lowerMsg) ==
    \/ lowerMsg \in {"hi", "hello", "hey", "greetings"}
    \/ \E p \in {"what can you do", "help me", "how does this work",
                 "what is this", "tell me about yourself"} : startsWith(lowerMsg, p)

flightPatterns(t) ==
    \/ matchVerbNoun(t, {"find", "search", "looking for", "need"}, flightNouns)
    \/ matchVerbNoun(t, {"book", "get"}, flightNouns)
    \/ matchRoute(t, {"fly", "flying"}, {"from"}, {"to"})
    \/ matchRoute(t, flightNouns, {"from", "between"}, {"to", "and"})
    \/ matchPair(t, {"airplane", "airport", "airline"},
                 {"ticket", "tickets", "flight", "flights"})

hotelPatterns(t) ==
    \/ matchVerbNoun(t, {"find", "search", "looking for", "need"}, hotelNouns)
    \/ matchVerbNoun(t, {"book", "get"}, hotelNouns)
    \/ matchPlace(t, {"stay", "accommodation", "room"}, {"in"})
    \/ matchPlace(t, hotelNouns, {"in", "near", "at"})

bookingPatterns(t) ==
    \/ matchVerbNoun(t, {"book", "reserve", "purchase"},
                     {"ticket", "tickets", "seat", "seats", "flight", "flights"})
    \/ matchVerbNoun(t, {"make"}, {"reservation", "booking"})
    \/ matchVerbNoun(t, {"buy"}, {"ticket", "tickets", "seat", "seats"})

\* The value null of TravelIntent | null.
NullIntent == [intentType |-> "null", confidence |-> 0]

\* Confidence is in hundredths: 0.9 is 90.
Intent(type, conf) == [intentType |-> type, confidence |-> conf]

\* The classifier with a confidence of 0.6 on its two fallback checks.
detectTravelIntentLowFallback(userMessage) ==
    LET lowerMsg == toLowerCase(userMessage)
        t == tokens(lowerMsg)
    IN  IF trim(userMessage) = "" THEN NullIntent
        ELSE IF greetingPatterns(lowerMsg) THEN NullIntent
        ELSE IF flightPatterns(t) THEN Intent("flight", 90)
        ELSE IF hotelPatterns(t) THEN Intent("hotel", 80)
        ELSE IF bookingPatterns(t) THEN Intent("booking", 95)
        ELSE IF includes(lowerMsg, "flight")
                /\ (includes(lowerMsg, "from") \/ includes(lowerMsg, "to"))
             THEN Intent("flight", 60)
        ELSE IF includes(lowerMsg, "hotel")
                /\ (includes(lowerMsg, "in") \/ includes(lowerMsg, "at")
                    \/ includes(lowerMsg, "near"))
             THEN Intent("hotel", 60)
        ELSE NullIntent

\* The classifier with the booking patterns tried before the flight patterns.
detectTravelIntentBookingFirst(userMessage) ==
    LET lowerMsg == toLowerCase(userMessage)
        t == tokens(lowerMsg)
    IN  IF trim(userMessage) = "" THEN NullIntent
        ELSE IF greetingPatterns(lowerMsg) THEN NullIntent
        ELSE IF bookingPatterns(t) THEN Intent("booking", 95)
        ELSE IF flightPatterns(t) THEN Intent("flight", 90)
        ELSE IF hotelPatterns(t) THEN Intent("hotel", 80)
        ELSE IF includes(lowerMsg, "flight")
                /\ (includes(lowerMsg, "from") \/ includes(lowerMsg, "to"))
             THEN Intent("flight", 70)
        ELSE IF includes(lowerMsg, "hotel")
                /\ (includes(lowerMsg, "in") \/ includes(lowerMsg, "at")
                    \/ includes(lowerMsg, "near"))
             THEN Intent("hotel", 70)
        ELSE NullIntent

detectTravelIntent(userMessage) ==
    LET lowerMsg == toLowerCase(userMessage)
        t == tokens(lowerMsg)
    IN  IF trim(userMessage) = "" THEN NullIntent
        ELSE IF greetingPatterns(lowerMsg) THEN NullIntent
        ELSE IF flightPatterns(t) THEN Intent("flight", 90)
        ELSE IF hotelPatterns(t) THEN Intent("hotel", 80)
        ELSE IF bookingPatterns(t) THEN Intent("booking", 95)
        ELSE IF includes(lowerMsg, "flight")
                /\ (includes(lowerMsg, "from") \/ includes(lowerMsg, "to"))
             THEN Intent("flight", 70)
        ELSE IF includes(lowerMsg, "hotel")
                /\ (includes(lowerMsg, "in") \/ includes(lowerMsg, "at")
                    \/ includes(lowerMsg, "near"))
             THEN Intent("hotel", 70)
        ELSE NullIntent

(***************************************************************************)
(* extractFlightParams: the location and date regular expressions,         *)
(* computed on the characters of the message (leftmost match, greedy       *)
(* groups).                                                                *)
(***************************************************************************)
LetterChars == UpperAlphabet \o LowerAlphabet

LetterSpaceChars == LetterChars \o " "

\* The last index of the longest run of characters of `alphabet` that starts
\* at i (i - 1 when s[i] is not in it).
RECURSIVE runEnd(_, _, _)
runEnd(s, i, alphabet) ==
    IF i <= Len(s) /\ CharIn(CharAt(s, i), alphabet)
    THEN runEnd(s, i + 1, alphabet)
    ELSE i - 1

SetMax(S) == CHOOSE m \in S : \A n \in S : n <= m

SetMin(S) == CHOOSE m \in S : \A n \in S : m <= n

NoMatch == [matched |-> FALSE, origin |-> "", destination |-> ""]

\* ([A-Za-z\s]+)\s+to\s+([A-Za-z\s]+) with group 1 starting at g: group 1 is
\* greedy, so the last " to " of the run that leaves a character for group 2
\* is taken; both groups are trimmed by the caller.
\* The indexes k of the "to" of a match: group 1 is s[g..k-2].
toPositions(s, g) ==
    LET e == runEnd(s, g, LetterSpaceChars)
    IN  { k \in (g + 2)..(e - 3) :
            /\ CharAt(s, k - 1) = " "
            /\ toLowerCase(slice(s, k, k + 1)) = "to"
            /\ CharAt(s, k + 2) = " " }

routeAt(s, g) ==
    LET e == runEnd(s, g, LetterSpaceChars)
        ks == toPositions(s, g)
    IN  IF ks = {} THEN NoMatch
        ELSE LET k == SetMax(ks)
             IN  [matched |-> TRUE,
                  origin |-> trim(slice(s, g, k - 2)),
                  destination |-> trim(slice(s, k + 3, e))]

\* /(?:from|between)\s+([A-Za-z\s]+)\s+to\s+([A-Za-z\s]+)/i
locationPattern1(s) ==
    LET low == toLowerCase(s)
        qs == { q \in 1..Len(s) :
                  /\ CharAt(s, q) = " "
                  /\ (endsWith(slice(low, 1, q - 1), "from")
                      \/ endsWith(slice(low, 1, q - 1), "between"))
                  /\ toPositions(s, q + 1) # {} }
    IN  IF qs = {} THEN NoMatch ELSE routeAt(s, SetMin(qs) + 1)

\* /([A-Za-z\s]+)\s+to\s+([A-Za-z\s]+)/i
locationPattern2(s) ==
    LET gs == { g \in 1..Len(s) :
                  /\ CharIn(CharAt(s, g), LetterSpaceChars)
                  /\ toPositions(s, g) # {} }
    IN  IF gs = {} THEN NoMatch ELSE routeAt(s, SetMin(gs))

countryAbbreviations ==
    [uk |-> "London", usa |-> "New York", us |-> "New York", uae |-> "Dubai",
     england |-> "London", australia |-> "Sydney", canada |-> "Toronto",
     china |-> "Beijing", india |-> "Delhi", japan |-> "Tokyo"]

\* An object literal used as a table also answers for the keys it inherits
\* from Object.prototype.  Of these only "constructor" is made of lower-case
\* letters; its value is the function Object, which is truthy and is not a
\* string.  The function is written as the string it converts to.
ObjectFunction == "function Object() { [native code] }"

inherited(key) == key = "constructor"

countryToPopularCity(place) ==
    IF toLowerCase(place) \in DOMAIN countryAbbreviations
    THEN countryAbbreviations[toLowerCase(place)]
    ELSE IF inherited(toLowerCase(place)) THEN ObjectFunction
    ELSE place

\* \d{1,2}(?:st|nd|rd|th)?(?:\s+\d{4})? at i (s[i] is a digit): the last index
\* of the greedy match.
dateTailEnd(s, i) ==
    LET d == IF i + 1 <= Len(s) /\ isDigit(CharAt(s, i + 1)) THEN i + 1 ELSE i
        o == IF toLowerCase(slice(s, d + 1, d + 2)) \in {"st", "nd", "rd", "th"}
             THEN d + 2 ELSE d
        sp == runEnd(s, o + 1, " ")
    IN  IF sp > o /\ runEnd(s, sp + 1, DigitChars) >= sp + 4 THEN sp + 4 ELSE o

\* [A-Za-z]+\s+\d{1,2}... with the letters starting at c: the last index of
\* the match, 0 when there is none.
monthDayEnd(s, c) ==
    LET l == runEnd(s, c, LetterChars)
        sp == runEnd(s, l + 1, " ")
    IN  IF l >= c /\ sp > l /\ sp + 1 <= Len(s) /\ isDigit(CharAt(s, sp + 1))
        THEN dateTailEnd(s, sp + 1)
        ELSE 0

\* /(?:on|for)\s+([A-Za-z]+\s+\d{1,2}(?:st|nd|rd|th)?(?:\s+\d{4})?)/i
datePattern1(s) ==
    LET low == toLowerCase(s)
        \* c: the first letter of the group, after the spaces that follow on|for
        cs == { c \in 2..Len(s) :
                  /\ CharAt(s, c - 1) = " "
                  /\ CharAt(s, c) # " "
                  /\ LET k == trimEnd(slice(low, 1, c - 1))
                     IN  endsWith(k, "on") \/ endsWith(k, "for")
                  /\ monthDayEnd(s, c) > 0 }
    IN  IF cs = {} THEN ""
        ELSE LET c == SetMin(cs) IN slice(s, c, monthDayEnd(s, c))

\* \d{1,2}(?:st|nd|rd|th)?\s+[A-Za-z]+(?:\s+\d{4})? at p with n digits: the
\* last index of the match, 0 when there is none.
dayMonthTry(s, p, n, withSuffix) ==
    LET d == p + n - 1
        o == IF withSuffix THEN d + 2 ELSE d
        sp == runEnd(s, o + 1, " ")
        l == runEnd(s, sp + 1, LetterChars)
        sp2 == runEnd(s, l + 1, " ")
    IN  IF /\ d <= Len(s)
           /\ \A i \in p..d : isDigit(CharAt(s, i))
           /\ (withSuffix => toLowerCase(slice(s, d + 1, d + 2)) \in {"st", "nd", "rd", "th"})
           /\ sp > o /\ l > sp
        THEN (IF sp2 > l /\ runEnd(s, sp2 + 1, DigitChars) >= sp2 + 4 THEN sp2 + 4 ELSE l)
        ELSE 0

dayMonthEnd(s, p) ==
    IF dayMonthTry(s, p, 2, TRUE) > 0 THEN dayMonthTry(s, p, 2, TRUE)
    ELSE IF dayMonthTry(s, p, 2, FALSE) > 0 THEN dayMonthTry(s, p, 2, FALSE)
    ELSE IF dayMonthTry(s, p, 1, TRUE) > 0 THEN dayMonthTry(s, p, 1, TRUE)
    ELSE dayMonthTry(s, p, 1, FALSE)

\* /(\d{1,2}(?:st|nd|rd|th)?\s+[A-Za-z]+(?:\s+\d{4})?)/i
datePattern2(s) ==
    LET ps == { p \in 1..Len(s) : dayMonthEnd(s, p) > 0 }
    IN  IF ps = {} THEN ""
        ELSE LET p == SetMin(ps) IN slice(s, p, dayMonthEnd(s, p))

\* /([A-Za-z]+\s+\d{1,2}(?:st|nd|rd|th)?(?:\s+\d{4})?)/i
datePattern3(s) ==
    LET cs == { c \in 1..Len(s) : monthDayEnd(s, c) > 0 }
    IN  IF cs = {} THEN ""
        ELSE LET c == SetMin(cs) IN slice(s, c, monthDayEnd(s, c))

\* An absent field (undefined) is the empty string: the handlers test fields
\* with !, which "" and undefined both satisfy.
orMatch(first, second) == IF first.matched THEN first ELSE second

\* a || b on strings
orElse(a, b) == IF a # "" THEN a ELSE b

\* lines 205-241: the fields of the result from the location match and the date
flightParams(loc, date) ==
    [origin |-> IF loc.origin = "" THEN "" ELSE countryToPopularCity(loc.origin),
     destination |-> IF loc.destination = "" THEN ""
                     ELSE countryToPopularCity(loc.destination),
     departDate |-> trim(date)]

extractFlightParams(message) ==
    flightParams(orMatch(locationPattern1(message), locationPattern2(message)),
                 orElse(datePattern1(message),
                        orElse(datePattern2(message), datePattern3(message))))

(***************************************************************************)
(* Location resolver: getFallbackAirportCode and getIATACode.              *)
(***************************************************************************)
\* The static city -> code table, in insertion order (Object.entries).
airportCodes ==
    << <<"london", "LHR">>, <<"new york", "JFK">>, <<"paris", "CDG">>,
       <<"tokyo", "HND">>, <<"sydney", "SYD">>, <<"dubai", "DXB">>,
       <<"madrid", "MAD">>, <<"berlin", "BER">>, <<"singapore", "SIN">>,
       <<"los angeles", "LAX">>, <<"san francisco", "SFO">>, <<"miami", "MIA">>,
       <<"chicago", "ORD">>, <<"toronto", "YYZ">>, <<"vancouver", "YVR">>,
       <<"rome", "FCO">>, <<"barcelona", "BCN">>, <<"amsterdam", "AMS">>,
       <<"frankfurt", "FRA">>, <<"munich", "MUC">>, <<"manchester", "MAN">>,
       <<"edinburgh", "EDI">>, <<"glasgow", "GLA">>, <<"delhi", "DEL">>,
       <<"mumbai", "BOM">>, <<"beijing", "PEK">>, <<"shanghai", "PVG">>,
       <<"san ramon", "OAK">> >>

AlphaNumChars == LetterChars \o DigitChars

\* location.replace(/[^a-zA-Z0-9]/g, '')
RECURSIVE sanitize(_)
sanitize(s) ==
    IF s = "" THEN ""
    ELSE (IF CharIn(CharAt(s, 1), AlphaNumChars) THEN CharAt(s, 1) ELSE "")
         \o sanitize(slice(s, 2, Len(s)))

exactMatches(locationLower) ==
    { i \in 1..Len(airportCodes) : airportCodes[i][1] = locationLower }

partialMatches(locationLower) ==
    { i \in 1..Len(airportCodes) :
        \/ includes(locationLower, airportCodes[i][1])
        \/ includes(airportCodes[i][1], locationLower) }

generatedCode(location) == toUpperCase(substring0(sanitize(location), 3))

getFallbackAirportCode(location) ==
    LET locationLower == toLowerCase(location)
    IN  IF inherited(locationLower) THEN ObjectFunction
        ELSE IF exactMatches(locationLower) # {}
        THEN airportCodes[SetMin(exactMatches(locationLower))][2]
        ELSE IF partialMatches(locationLower) # {}
        THEN airportCodes[SetMin(partialMatches(locationLower))][2]
        ELSE generatedCode(location)

countryToCity ==
    [x \in {"uk", "england", "britain", "great britain", "united kingdom"} |-> "London"]
    @@ [x \in {"usa", "us", "united states"} |-> "New York"]
    @@ ("uae" :> "Dubai") @@ ("australia" :> "Sydney") @@ ("canada" :> "Toronto")
    @@ ("china" :> "Beijing") @@ ("india" :> "Delhi") @@ ("japan" :> "Tokyo")
    @@ ("france" :> "Paris") @@ ("germany" :> "Berlin") @@ ("spain" :> "Madrid")
    @@ ("italy" :> "Rome")

\* getIATACode, lines 373-375: the location is rejected.
invalidLocation(location) == location = ObjectFunction \/ trim(location) = ""

\* getIATACode, lines 399-404: a country becomes its major city.
countryNormalized(location) ==
    LET normalizedLocation == toLowerCase(trim(location))
    IN  IF normalizedLocation \in DOMAIN countryToCity
        THEN countryToCity[normalizedLocation]
        ELSE IF inherited(normalizedLocation) THEN ObjectFunction
        ELSE location

\* An entry of the provider's location list: subType, iataCode ("" when the
\* field is absent) and whether it carries a geoCode.
Loc(subType, iataCode) == [subType |-> subType, iataCode |-> iataCode, geoCode |-> TRUE]

firstOf(locationData, subType) ==
    LET is == { i \in 1..Len(locationData) : locationData[i].subType = subType }
    IN  IF is = {} THEN "" ELSE locationData[SetMin(is)].iataCode

\* cityLocation?.iataCode || airportLocation?.iataCode || locationData[0].iataCode
pickIataCode(locationData) ==
    IF firstOf(locationData, "CITY") # "" THEN firstOf(locationData, "CITY")
    ELSE IF firstOf(locationData, "AIRPORT") # "" THEN firstOf(locationData, "AIRPORT")
    ELSE locationData[1].iataCode

(***************************************************************************)
(* handleHotelIntent: the city and guest-count regular expressions.        *)
(***************************************************************************)
\* (?:\s+from|\s+on|\s+for|$) at h
terminatorAt(s, h) ==
    \/ h = Len(s) + 1
    \/ LET sp == runEnd(s, h, " ")
           rest == toLowerCase(slice(s, sp + 1, Len(s)))
       IN  sp >= h /\ (startsWith(rest, "from") \/ startsWith(rest, "on")
                       \/ startsWith(rest, "for"))

\* (?:\s+in\s+[A-Za-z\s]+)? at h, followed by the terminator: the last index
\* of the greedy group, 0 when the group cannot be taken.
inPartEnd(s, h) ==
    LET sp == runEnd(s, h, " ")
        e == runEnd(s, sp + 3, LetterSpaceChars)
        ms == { m \in (sp + 4)..e : terminatorAt(s, m + 1) }
    IN  IF sp >= h /\ toLowerCase(slice(s, sp + 1, sp + 2)) = "in"
           /\ CharAt(s, sp + 3) = " " /\ ms # {}
        THEN SetMax(ms)
        ELSE 0

\* The lazy group [A-Za-z\s,]+? started at g: the first indexes h after it at
\* which the rest of cityStatePattern matches.
cityEnds(s, g) ==
    { h \in (g + 1)..(runEnd(s, g, LetterSpaceChars) + 1) :
        inPartEnd(s, h) > 0 \/ terminatorAt(s, h) }

cityFrom(s, g) ==
    LET h == SetMin(cityEnds(s, g))
    IN  IF inPartEnd(s, h) > 0 THEN slice(s, g, inPartEnd(s, h)) ELSE slice(s, g, h - 1)

\* The starts g of the group that follow (?:in|at|near|to)\s+ whose keyword
\* ends at q - 1: \s+ is greedy and gives spaces back on failure.
cityStarts(s, q) ==
    { g \in (q + 1)..(runEnd(s, q, " ") + 1) : cityEnds(s, g) # {} }

\* /(?:in|at|near|to)\s+([A-Za-z\s,]+?(?:\s+in\s+[A-Za-z\s]+)?)(?:\s+from|\s+on|\s+for|$)/i
\* The result is [matched, text]: the group of the leftmost match.
cityStatePattern(s) ==
    LET low == toLowerCase(s)
        qs == { q \in 1..Len(s) :
                  /\ CharAt(s, q) = " "
                  /\ \E kw \in {"in", "at", "near", "to"} : endsWith(slice(low, 1, q - 1), kw)
                  /\ cityStarts(s, q) # {} }
    IN  IF qs = {} THEN [matched |-> FALSE, text |-> ""]
        ELSE [matched |-> TRUE,
              text |-> cityFrom(s, SetMax(cityStarts(s, SetMin(qs))))]

\* The rest of generalLocationPattern after a keyword that ends at k:
\* (?:\s+in|\s+at|\s+near|\s+to)?\s+([A-Za-z\s,]+); [matched, text].
afterHotelWord(s, k) ==
    LET sp == runEnd(s, k + 1, " ")
        low == toLowerCase(s)
        prepEnd == IF sp > k /\ CharAt(s, sp + 3) = " "
                      /\ slice(low, sp + 1, sp + 2) \in {"in", "at", "to"}
                   THEN sp + 2
                   ELSE IF sp > k /\ CharAt(s, sp + 5) = " "
                           /\ slice(low, sp + 1, sp + 4) = "near"
                   THEN sp + 4
                   ELSE 0
        \* \s+([A-Za-z\s,]+) at i: the spaces are greedy, the group takes the
        \* rest of the run and at least one character
        groupAt(i) ==
            LET sp2 == runEnd(s, i, " ")
                e == runEnd(s, i, LetterSpaceChars)
            IN  IF sp2 < i \/ e < i + 1 THEN [matched |-> FALSE, text |-> ""]
                ELSE IF e > sp2 THEN [matched |-> TRUE, text |-> slice(s, sp2 + 1, e)]
                ELSE [matched |-> TRUE, text |-> " "]
    IN  IF prepEnd > 0 /\ groupAt(prepEnd + 1).matched
        THEN groupAt(prepEnd + 1)
        ELSE groupAt(k + 1)

\* /(?:hotel|stay|room|accommodation)(?:\s+in|\s+at|\s+near|\s+to)?\s+([A-Za-z\s,]+)/i
generalLocationPattern(s) ==
    LET low == toLowerCase(s)
        ks == { k \in 1..Len(s) :
                  /\ \E kw \in {"hotel", "stay", "room", "accommodation"} :
                        endsWith(slice(low, 1, k), kw)
                  /\ afterHotelWord(s, k).matched }
        \* the leftmost match starts at the leftmost keyword
        starts == { << k - (IF endsWith(slice(low, 1, k), "accommodation") THEN 13
                            ELSE IF endsWith(slice(low, 1, k), "hotel") THEN 5
                            ELSE 4), k >> : k \in ks }
    IN  IF ks = {} THEN [matched |-> FALSE, text |-> ""]
        ELSE LET first == CHOOSE p \in starts : \A r \in starts : p[1] <= r[1]
             IN  afterHotelWord(s, first[2])

\* /([A-Za-z]+(?:\s*,\s*[A-Za-z]+)?)/i : the first run of letters (the input
\* alphabet has no comma).
fallbackPattern(s) ==
    LET cs == { c \in 1..Len(s) : isLetter(CharAt(s, c)) }
    IN  IF cs = {} THEN [matched |-> FALSE, text |-> ""]
        ELSE [matched |-> TRUE,
              text |-> slice(s, SetMin(cs), runEnd(s, SetMin(cs), LetterChars))]

\* handleHotelIntent lines 757-786: city is "" for null and for an empty group.
extractCity(message) ==
    trim(orMatch(cityStatePattern(message),
                 orMatch(generalLocationPattern(message), fallbackPattern(message))).text)

RECURSIVE parseInt(_)
parseInt(digits) ==
    IF digits = "" THEN 0
    ELSE 10 * parseInt(slice(digits, 1, Len(digits) - 1))
         + (CHOOSE d \in 0..9 : CharAt(DigitChars, d + 1) = CharAt(digits, Len(digits)))

\* /(\d+)\s+(?:adult|adults|people|guests)/i : the digits of the leftmost
\* match, "" when there is none.
adultsPattern(s) ==
    LET low == toLowerCase(s)
        ps == { p \in 1..Len(s) :
                  LET d == runEnd(s, p, DigitChars)
                      sp == runEnd(s, d + 1, " ")
                      rest == slice(low, sp + 1, Len(s))
                  IN  d >= p /\ sp > d
                      /\ \E kw \in {"adult", "people", "guests"} : startsWith(rest, kw) }
    IN  IF ps = {} THEN ""
        ELSE slice(s, SetMin(ps), runEnd(s, SetMin(ps), DigitChars))

\* The count taken as it is parsed when it is 1 or more, with no upper limit.
extractAdultsUnlimited(message) ==
    LET digits == adultsPattern(message)
        parsed == parseInt(digits)
    IN  IF digits = "" THEN 1
        ELSE IF parsed < 1 THEN 1
        ELSE parsed

\* handleHotelIntent lines 801-808
extractAdults(message) ==
    LET digits == adultsPattern(message)
        parsed == parseInt(digits)
    IN  IF digits = "" THEN 1
        ELSE IF parsed < 1 THEN 1
        ELSE IF parsed > 9 THEN 9
        ELSE parsed

(***************************************************************************)
(* handleHotelIntent: the check-in and check-out regular expressions.      *)
(***************************************************************************)
\* [A-Za-z]+\s+\d{1,2}(?:st|nd|rd|th)?(?:,\s+\d{4})? with the letters starting
\* at c: the last index of the match, 0 when there is none.
hotelMonthDayEnd(s, c) ==
    LET l == runEnd(s, c, LetterChars)
        sp == runEnd(s, l + 1, " ")
        d == IF isDigit(CharAt(s, sp + 2)) THEN sp + 2 ELSE sp + 1
        o == IF toLowerCase(slice(s, d + 1, d + 2)) \in {"st", "nd", "rd", "th"}
             THEN d + 2 ELSE d
        ys == runEnd(s, o + 2, " ")
    IN  IF l >= c /\ sp > l /\ isDigit(CharAt(s, sp + 1))
        THEN (IF CharAt(s, o + 1) = "," /\ ys > o + 1
                 /\ runEnd(s, ys + 1, DigitChars) >= ys + 4
              THEN ys + 4 ELSE o)
        ELSE 0

\* \d{1,2}[/\-] at p: the index of the separator, 0 when there is none.
dayPartEnd(s, p) ==
    LET r == runEnd(s, p, DigitChars)
        d == IF r > p + 1 THEN p + 1 ELSE r
    IN  IF d >= p /\ CharIn(CharAt(s, d + 1), "/-") THEN d + 1 ELSE 0

\* \d{1,2}[/\-]\d{1,2}[/\-]\d{2,4} at c: the last index of the match, 0 when
\* there is none.
numericDateEnd(s, c) ==
    LET a == dayPartEnd(s, c)
        b == IF a = 0 THEN 0 ELSE dayPartEnd(s, a + 1)
        y == runEnd(s, b + 1, DigitChars)
    IN  IF b > 0 /\ y >= b + 2 THEN (IF y > b + 4 THEN b + 4 ELSE y) ELSE 0

hotelDateEnd(s, c) ==
    IF isDigit(CharAt(s, c)) THEN numericDateEnd(s, c) ELSE hotelMonthDayEnd(s, c)

\* check[\s-]*in and check[\s-]*out at the end of k
endsWithCheck(k, word) ==
    /\ endsWith(k, word)
    /\ \E j \in 5..(Len(k) - Len(word)) :
          /\ slice(k, j - 4, j) = "check"
          /\ \A i \in (j + 1)..(Len(k) - Len(word)) : CharIn(CharAt(k, i), " -")

\* (?:words|check[\s-]*word)\s+ before the group that starts at c
hotelDateAt(s, c, words, checkWord) ==
    /\ CharAt(s, c - 1) = " " /\ CharAt(s, c) # " "
    /\ LET k == trimEnd(slice(toLowerCase(s), 1, c - 1))
       IN  (\E w \in words : endsWith(k, w)) \/ endsWithCheck(k, checkWord)

\* The group of the leftmost match, "" when there is none.
hotelDatePattern(s, words, checkWord) ==
    LET cs == { c \in 2..Len(s) :
                  hotelDateAt(s, c, words, checkWord) /\ hotelDateEnd(s, c) > 0 }
    IN  IF cs = {} THEN "" ELSE slice(s, SetMin(cs), hotelDateEnd(s, SetMin(cs)))

\* lines 789-793
checkInPattern(message) == hotelDatePattern(message, {"from", "on", "starting"}, "in")

\* lines 795-799
checkOutPattern(message) ==
    hotelDatePattern(message, {"to", "until", "through", "checkout"}, "out")

(***************************************************************************)
(* formatDate.  A day is counted from 2025-01-01 (the years 2025 to 2027   *)
(* have 365 days), an instant is in hours from 2025-01-01T00:00Z, and the  *)
(* local time is the UTC time plus tz hours.                               *)
(***************************************************************************)
MonthKeys ==
    << "jan", "feb", "mar", "apr", "may", "jun", "jul", "aug", "sep", "oct", "nov", "dec" >>

\* The days of the year before the first of each month.
DaysBefore == << 0, 31, 59, 90, 120, 151, 181, 212, 243, 273, 304, 334 >>

dayNumber(y, m, d) == (y - 2025) * 365 + DaysBefore[m] + d - 1

yearOf(n) == 2025 + n \div 365

monthOf(n) == SetMax({ m \in 1..12 : DaysBefore[m] <= (n % 365) })

pad2(n) == IF n < 10 THEN "0" \o ToString(n) ELSE ToString(n)

\* date.toISOString().split('T')[0] of an instant of day n (UTC)
toISODate(n) ==
    ToString(yearOf(n)) \o "-" \o pad2(monthOf(n)) \o "-"
    \o pad2((n % 365) - DaysBefore[monthOf(n)] + 1)

utcDay(instant) == instant \div 24

localDay(instant, tz) == (instant + tz) \div 24

localMidnight(n, tz) == n * 24 - tz

isDigits(w) == w # "" /\ \A i \in 1..Len(w) : isDigit(CharAt(w, i))

\* dateStr.replace(/([0-9]+)(st|nd|rd|th)/gi, '$1')
RECURSIVE stripOrdinals(_, _)
stripOrdinals(s, i) ==
    IF i > Len(s) THEN ""
    ELSE IF i > 1 /\ isDigit(CharAt(s, i - 1))
            /\ toLowerCase(slice(s, i, i + 1)) \in {"st", "nd", "rd", "th"}
    THEN stripOrdinals(s, i + 2)
    ELSE CharAt(s, i) \o stripOrdinals(s, i + 1)

\* lines 265-268: the current year is added to a string that does not end
\* in four digits.
withYear(stripped, currentYear) ==
    IF Len(stripped) >= 4 /\ isDigits(slice(stripped, Len(stripped) - 3, Len(stripped)))
    THEN stripped
    ELSE stripped \o " " \o ToString(currentYear)

normalizedDate(dateStr, now, tz) ==
    withYear(trim(stripOrdinals(dateStr, 1)), yearOf(localDay(now, tz)))

monthIndex(w) ==
    SetMax({0} \cup { m \in 1..12 : slice(toLowerCase(w), 1, 3) = MonthKeys[m] })

\* "Month D YYYY", which Date reads as the local midnight of the day
isNamedDate(t) ==
    /\ Len(t) = 3 /\ monthIndex(t[1]) > 0
    /\ isDigits(t[2]) /\ parseInt(t[2]) \in 1..28
    /\ isDigits(t[3]) /\ Len(t[3]) = 4

isISODate(w) ==
    /\ Len(w) = 10 /\ isDigits(slice(w, 1, 4)) /\ CharAt(w, 5) = "-"
    /\ isDigits(slice(w, 6, 7)) /\ CharAt(w, 8) = "-" /\ isDigits(slice(w, 9, 10))
    /\ parseInt(slice(w, 6, 7)) \in 1..12 /\ parseInt(slice(w, 9, 10)) \in 1..28

\* "YYYY-MM-DD YYYY" is not a format of the language: what Date makes of it
\* is left to the implementation (parse): an invalid date ("nan"), or the
\* day at local ("local") or at UTC ("utc") midnight.
isISODateWithYear(t) ==
    Len(t) = 2 /\ isISODate(t[1]) /\ isDigits(t[2]) /\ Len(t[2]) = 4

\* !isNaN(new Date(normalizedDate).getTime()), t the tokens of normalizedDate
validDate(t, parse) ==
    isNamedDate(t) \/ (isISODateWithYear(t) /\ parse # "nan")

isoDay(w) ==
    dayNumber(parseInt(slice(w, 1, 4)), parseInt(slice(w, 6, 7)), parseInt(slice(w, 9, 10)))

\* new Date(normalizedDate).getTime() of a valid date
dateTime(t, tz, parse) ==
    IF isNamedDate(t)
    THEN localMidnight(dayNumber(parseInt(t[3]), monthIndex(t[1]), parseInt(t[2])), tz)
    ELSE IF parse = "local" THEN localMidnight(isoDay(t[1]), tz)
    ELSE 24 * isoDay(t[1])

\* lines 284-286 and 293-295: a day from now, as its UTC date
tomorrowDate(now) == toISODate(utcDay(now + 24))

\* formatDate from line 270 on, t the tokens of normalizedDate
formatParsed(t, now, tz, parse) ==
    IF ~validDate(t, parse) THEN tomorrowDate(now)
    ELSE IF dateTime(t, tz, parse) < localMidnight(localDay(now, tz), tz)
    THEN tomorrowDate(now)
    ELSE toISODate(utcDay(dateTime(t, tz, parse)))

formatDate(dateStr, now, tz, parse) ==
    IF dateStr = "" THEN tomorrowDate(now)
    ELSE formatParsed(tokens(normalizedDate(dateStr, now, tz)), now, tz, parse)

(***************************************************************************)
(* The state of the program.                                               *)
(***************************************************************************)
VARIABLES
    openaiConfigured,   \* OpenAIService: a client and OPENAI_API_KEY exist
    isInitialized,      \* AmadeusService.isInitialized
    client,             \* AmadeusService.client is not null
    authTest,           \* testAuth: "none", "pending" or "done"
    net,                \* the requests sent to the provider and to the LLM
    store,              \* the rows of the messages table, oldest first
    emitted,            \* the messages emitted on the socket
    updatedAt,          \* the updates of the conversation's updated_at requested
    http,               \* the HTTP response of the request under way
    pc,                 \* where the asynchronous reply task stands
    msgs,               \* the history handed to generateResponse
    reply,              \* the string generateResponse returned
    calls,              \* the operations the reply task has invoked, in order
    hl,                 \* the locals of the intent handler across its awaits
    bk,                 \* the booking request under way
    ad,                 \* the adapter call under way
    tasks,              \* the requests and reply tasks of concurrent turns
    clock               \* the time, the time zone and the Date parser of the runtime

vars == << openaiConfigured, isInitialized, client, authTest, net, store, emitted, updatedAt,
           http, pc, msgs, reply, calls, hl, bk, ad, tasks, clock >>

serviceVars == << openaiConfigured, isInitialized, client, authTest, clock >>

chatVars == << store, emitted, updatedAt, http, pc, msgs, reply, calls, hl, tasks >>

(***************************************************************************)
(* AmadeusService: construction, testAuth, checkInitialization.            *)
(***************************************************************************)
\* A request: the endpoint and the two parameters the model follows.
Req(api, a, b) == [api |-> api, a |-> a, b |-> b]

\* testAuth's request, sent by the constructor when initialize succeeded
testAuthRequest == Req("referenceData.locations.get", "LON", "CITY")

\* The constructor: initialize() sets the client and the flag when both
\* credentials exist, and then the authorization test is started.
AmadeusConstructed(credentials) ==
    /\ client = credentials
    /\ isInitialized = credentials
    /\ authTest = IF credentials THEN "pending" ELSE "none"
    /\ net = IF credentials THEN << testAuthRequest >> ELSE << >>

\* The authorization test tried again after a failure: a later success sets
\* the flag.
testAuthRetried ==
    /\ authTest = "pending"
    /\ \E ok \in BOOLEAN :
          /\ isInitialized' = ok
          /\ authTest' = IF ok THEN "done" ELSE "pending"
    /\ UNCHANGED << openaiConfigured, client, net, bk, ad, clock >>
    /\ UNCHANGED chatVars

\* testAuth's request completes: a failure clears the flag, the client stays.
testAuth ==
    /\ authTest = "pending"
    /\ \E ok \in BOOLEAN :
          isInitialized' = IF ok THEN isInitialized ELSE FALSE
    /\ authTest' = "done"
    /\ UNCHANGED << openaiConfigured, client, net, bk, ad, clock >>
    /\ UNCHANGED chatVars

isClientInitialized == isInitialized

NotInitializedError ==
    "Amadeus client is not initialized. Please check your credentials in the .env file."

\* The check with the flag left out: only the client is looked at.
checkInitializationClientOnly == client

\* TRUE when checkInitialization() does not throw
checkInitialization == isInitialized /\ client

(***************************************************************************)
(* What the provider SDK answers to a request: data (status 200), an error *)
(* response with a status code, or no response at all (status 0, a network *)
(* error with a message).                                                  *)
(***************************************************************************)
Ok(data) ==
    [status |-> 200, data |-> data, code |-> 0, title |-> "", detail |-> "", message |-> ""]

Err(status, code, title, detail) ==
    [status |-> status, data |-> << >>, code |-> code, title |-> title,
     detail |-> detail, message |-> ""]

NetworkError == 
    [status |-> 0, data |-> << >>, code |-> 0, title |-> "", detail |-> "",
     message |-> "connect ECONNREFUSED"]

NoResponse == Ok(<< >>)

NoReq == Req("", "", "")

(***************************************************************************)
(* An asynchronous method is a coroutine: called with stage "call" it runs *)
(* to its first await; resumed with the stage it awaits and the response,  *)
(* it runs to the next.  Each run ends in a return, a throw or an await.   *)
(* `errors` is the detail or title of the Amadeus error body the message   *)
(* of a thrown error embeds.                                               *)
(***************************************************************************)
Return(data) ==
    [kind |-> "return", data |-> data, message |-> "", errors |-> "",
     stage |-> "", request |-> NoReq]

Throw(message, errors) ==
    [kind |-> "throw", data |-> << >>, message |-> message, errors |-> errors,
     stage |-> "", request |-> NoReq]

Await(stage, request) ==
    [kind |-> "await", data |-> << >>, message |-> "", errors |-> "",
     stage |-> stage, request |-> request]

\* `throw error` of what the SDK raised
Rethrow(resp) == Throw(resp.message, "")

errorDetailOf(resp) == IF resp.detail # "" THEN resp.detail ELSE resp.title

\* searchFlights with not-found answered by an empty list.
searchFlightsNotFoundEmpty(originCode, destinationCode, stage, resp) ==
    IF stage = "call"
    THEN IF ~checkInitialization THEN Throw(NotInitializedError, "")
         ELSE Await("flightOffersSearch",
                    Req("shopping.flightOffersSearch.get",
                        toUpperCase(originCode), toUpperCase(destinationCode)))
    ELSE IF resp.status = 200 THEN Return(resp.data)
    ELSE IF resp.status = 400
    THEN Throw("Bad request: " \o resp.title \o " " \o resp.detail, errorDetailOf(resp))
    ELSE IF resp.status = 401
    THEN Throw("Authentication failed. Please check your Amadeus API credentials.", "")
    ELSE IF resp.status = 404
    THEN Return(<< >>)
    ELSE Rethrow(resp)

\* searchFlights, lines 127-136: the departure date sent.  new Date of a
\* YYYY-MM-DD string is the UTC midnight of the day; today is the local
\* midnight.
departureSent(departDate, now, tz) ==
    IF 24 * isoDay(departDate) < localMidnight(localDay(now, tz), tz)
    THEN tomorrowDate(now)
    ELSE departDate

\* searchFlights, lines 139-147: the return date sent, "" when there is none.
\* The comparison and the seven days are taken from depDate, the date parsed
\* at line 127 from the departure date as it was given.
returnSent(departDate, returnDate) ==
    IF returnDate = "" THEN ""
    ELSE IF isoDay(returnDate) < isoDay(departDate)
    THEN toISODate(isoDay(departDate) + 7)
    ELSE returnDate

searchFlights(originCode, destinationCode, stage, resp) ==
    IF stage = "call"
    THEN IF ~checkInitialization THEN Throw(NotInitializedError, "")
         ELSE Await("flightOffersSearch",
                    Req("shopping.flightOffersSearch.get",
                        toUpperCase(originCode), toUpperCase(destinationCode)))
    ELSE IF resp.status = 200 THEN Return(resp.data)
    ELSE IF resp.status = 400
    THEN Throw("Bad request: " \o resp.title \o " " \o resp.detail, errorDetailOf(resp))
    ELSE IF resp.status = 401
    THEN Throw("Authentication failed. Please check your Amadeus API credentials.", "")
    ELSE IF resp.status = 404
    THEN Throw("No flights found for the given criteria.", "")
    ELSE Rethrow(resp)

PriceChangedCode == 37200

confirmFlightPrice(flightOffer, stage, resp) ==
    IF stage = "call"
    THEN IF ~checkInitialization THEN Throw(NotInitializedError, "")
         ELSE Await("pricing",
                    Req("shopping.flightOffers.pricing.post", flightOffer.id, flightOffer.total))
    ELSE IF resp.status = 200 THEN Return(resp.data)
    ELSE IF resp.status = 400 /\ resp.code = PriceChangedCode
    THEN Throw("Price has changed. " \o resp.detail, "")
    ELSE Rethrow(resp)

InvalidPassengerCode == 1398

createFlightBooking(confirmedOffer, stage, resp) ==
    IF stage = "call"
    THEN IF ~checkInitialization THEN Throw(NotInitializedError, "")
         ELSE Await("flightOrders",
                    Req("booking.flightOrders.post", confirmedOffer.id, confirmedOffer.total))
    ELSE IF resp.status = 200 THEN Return(resp.data)
    ELSE IF resp.status = 400
    THEN IF resp.code = PriceChangedCode
         THEN Throw("Price has changed since confirmation. Please search again.", "")
         ELSE IF resp.code = InvalidPassengerCode
         THEN Throw("Invalid passenger information. Please check all details.", "")
         ELSE IF resp.title = "INVALID FORMAT"
         THEN Throw("Payment cannot be processed in self-service mode. Work with an airline consolidator.", "")
         ELSE Throw("Booking failed: " \o resp.title, "")
    ELSE Rethrow(resp)

lookupCity(keyword, subType, stage, resp) ==
    IF stage = "call"
    THEN IF ~checkInitialization THEN Throw(NotInitializedError, "")
         ELSE Await("locations", Req("referenceData.locations.get", keyword, subType))
    ELSE IF resp.status = 200 THEN Return(resp.data)
    ELSE Rethrow(resp)

getHotelList(cityCode, stage, resp) ==
    IF stage = "call"
    THEN IF ~checkInitialization THEN Throw(NotInitializedError, "")
         ELSE Await("hotelList",
                    Req("referenceData.locations.hotels.byCity.get", toUpperCase(cityCode), ""))
    ELSE IF resp.status = 200 THEN Return(resp.data)
    ELSE IF resp.status = 404 THEN Throw("No hotels found for city code: " \o cityCode, "")
    ELSE Throw("Failed to get hotel list: "
               \o (IF resp.message # "" THEN resp.message ELSE "Unknown error"), "")

unableToFindHotels(cityCode) ==
    Throw("Unable to find hotels in " \o cityCode
          \o ". Try a different city or check the city code.", "")

\* searchHotels, lines 624-654: the search by the city's coordinates, from
\* its start; an error of lookupCity is caught and logged.
coordinateFallback(cityCode) ==
    LET c == lookupCity(cityCode, "CITY", "call", NoResponse)
    IN  IF c.kind = "throw" THEN unableToFindHotels(cityCode)
        ELSE Await("cityDetails", c.request)

searchHotels(cityCode, stage, resp) ==
    IF stage = "call"
    THEN IF ~checkInitialization THEN Throw(NotInitializedError, "")
         ELSE LET l == getHotelList(cityCode, "call", NoResponse)
              IN  IF l.kind = "throw" THEN coordinateFallback(cityCode)
                  ELSE Await("hotelList", l.request)
    ELSE IF stage = "hotelList"
    THEN LET l == getHotelList(cityCode, "hotelList", resp)
         IN  IF l.kind = "return" /\ Len(l.data) > 0
             THEN Await("hotelOffers", Req("shopping.hotelOffersSearch.get", "hotelIds", ""))
             ELSE coordinateFallback(cityCode)
    ELSE IF stage = "hotelOffers"
    THEN IF resp.status = 200 THEN Return(resp.data)
         ELSE coordinateFallback(cityCode)
    ELSE IF stage = "cityDetails"
    THEN LET c == lookupCity(cityCode, "CITY", "locations", resp)
         IN  IF c.kind = "return" /\ Len(c.data) > 0 /\ c.data[1].geoCode
             THEN Await("coordSearch", Req("shopping.hotelOffersSearch.get", "geoCode", ""))
             ELSE unableToFindHotels(cityCode)
    ELSE IF resp.status = 200 THEN Return(resp.data)
         ELSE unableToFindHotels(cityCode)

bookHotel(offerId, stage, resp) ==
    IF stage = "call"
    THEN IF ~checkInitialization THEN Throw(NotInitializedError, "")
         ELSE Await("hotelBookings", Req("booking.hotelBookings.post", offerId, ""))
    ELSE IF resp.status = 200 THEN Return(resp.data)
    ELSE Rethrow(resp)

searchPointsOfInterest(latitude, longitude, stage, resp) ==
    IF stage = "call"
    THEN IF ~checkInitialization THEN Throw(NotInitializedError, "")
         ELSE Await("pointsOfInterest",
                    Req("referenceData.locations.pointsOfInterest.get", latitude, longitude))
    ELSE IF resp.status = 200 THEN Return(resp.data)
    ELSE Rethrow(resp)

(***************************************************************************)
(* OpenAIService: the reply pipeline.  Long literal replies are cut after  *)
(* their first sentence.                                                   *)
(***************************************************************************)
Msg(role, content) == [role |-> role, content |-> content]

NoMessage == Msg("", "")

\* [...messages].reverse().find(msg => msg.role === 'user')
lastUserMessage(messages) ==
    LET us == { i \in 1..Len(messages) : messages[i].role = "user" }
    IN  IF us = {} THEN NoMessage ELSE messages[SetMax(us)]

FallbackFlightReply ==
    "I'd be happy to help you find flights. Please let me know your departure city, destination, and travel dates."

FallbackHotelReply ==
    "I can help you find hotels. What city are you visiting and when do you need accommodation?"

FallbackDefaultReply ==
    "I'm your travel assistant. I can help you search for flights and hotels. What would you like to explore today?"

\* The canned replies with the hotel keyword tested first.
getFallbackResponseHotelFirst(messages) ==
    LET lowerInput == toLowerCase(lastUserMessage(messages).content)
    IN  IF includes(lowerInput, "hotel") THEN FallbackHotelReply
        ELSE IF includes(lowerInput, "flight") THEN FallbackFlightReply
        ELSE FallbackDefaultReply

getFallbackResponse(messages) ==
    LET lowerInput == toLowerCase(lastUserMessage(messages).content)
    IN  IF includes(lowerInput, "flight") THEN FallbackFlightReply
        ELSE IF includes(lowerInput, "hotel") THEN FallbackHotelReply
        ELSE FallbackDefaultReply

\* A step of the reply pipeline: it returns the reply, or awaits a response
\* at `stage` after sending `request`.  `calls` are the operations invoked on
\* the way and `locals` the handler's local variables at the await.
Call(op, a, b) == [op |-> op, a |-> a, b |-> b]

NoLocals ==
    [params |-> [origin |-> "", destination |-> "", departDate |-> ""],
     originCode |-> "", destinationCode |-> "", city |-> "", adults |-> 1, cityCode |-> ""]

Reply(text, ops) ==
    [kind |-> "return", reply |-> text, stage |-> "", request |-> NoReq,
     calls |-> ops, locals |-> NoLocals]

\* The reply of a handler whose work failed: the not-initialized reply or the
\* reply of one of its catch blocks.
Failed(text, ops) == Reply(text, Append(ops, Call("HandlerFailed", "", "")))

Pending(stage, request, ops, locals) ==
    [kind |-> "await", reply |-> "", stage |-> stage, request |-> request,
     calls |-> ops, locals |-> locals]

\* The completion returned as it is, with no fallback for an empty content.
generateStandardResponseAsIs(messages, stage, resp) ==
    IF stage = "call"
    THEN Pending("llm", Req("chat.completions.create", "gpt-4o",
                            lastUserMessage(messages).content),
                 << Call("generateStandardResponse", "", "") >>, NoLocals)
    ELSE IF resp.status = 200 /\ Len(resp.data) > 0
    THEN Reply(resp.data[1], << >>)
    ELSE Reply(getFallbackResponse(messages), << Call("getFallbackResponse", "", "") >>)

\* An LLM completion: data holds choices[0].message.content when there is a choice.
generateStandardResponse(messages, stage, resp) ==
    IF stage = "call"
    THEN Pending("llm", Req("chat.completions.create", "gpt-4o",
                            lastUserMessage(messages).content),
                 << Call("generateStandardResponse", "", "") >>, NoLocals)
    ELSE IF resp.status = 200 /\ Len(resp.data) > 0 /\ resp.data[1] # ""
    THEN Reply(resp.data[1], << >>)
    ELSE Reply(getFallbackResponse(messages), << Call("getFallbackResponse", "", "") >>)

\* return this.getFallbackAirportCode(location), lines 409 and 438: the call
\* of toLowerCase on a location that is not a string throws.
fallbackCode(location) ==
    IF location = ObjectFunction
    THEN Throw("location.toLowerCase is not a function", "")
    ELSE Return(getFallbackAirportCode(location))

\* getIATACode as a coroutine over the await of lookupCity; a return carries
\* the code in `data`.
getIATACode(location0, stage, resp) ==
    LET location == countryNormalized(location0)
    IN  IF invalidLocation(location0)
        THEN Throw("Invalid location: Location name is required", "")
        ELSE IF stage = "call"
        THEN IF ~isClientInitialized THEN fallbackCode(location)
             ELSE LET r == lookupCity(location, "CITY,AIRPORT", "call", NoResponse)
                  IN  IF r.kind = "throw" THEN fallbackCode(location)
                      ELSE r
        ELSE LET r == lookupCity(location, "CITY,AIRPORT", "locations", resp)
             IN  IF r.kind = "return" /\ Len(r.data) > 0
                    /\ pickIataCode(r.data) # "" /\ Len(pickIataCode(r.data)) = 3
                 THEN Return(pickIataCode(r.data))
                 ELSE fallbackCode(location)

\* formatFlightResponse, lines 496-546: the text one offer adds.  An offer
\* with no segments is skipped (line 498); an offer with no price throws at
\* line 530, after its heading was added, and the catch goes on to the next.
flightOption(offer, i) ==
    IF ~offer.hasSegments THEN ""
    ELSE IF ~offer.hasPrice THEN "**Option " \o ToString(i) \o "**\n"
    ELSE "**Option " \o ToString(i) \o "** Price: USD " \o offer.total \o "\n"

\* formatFlightResponse: the loop over the first maxFlights offers.
RECURSIVE flightOptions(_, _, _)
flightOptions(flightOffers, i, maxFlights) ==
    IF i > maxFlights THEN ""
    ELSE flightOption(flightOffers[i], i)
         \o flightOptions(flightOffers, i + 1, maxFlights)

Min(a, b) == IF a < b THEN a ELSE b

formatFlightResponse(flightOffers, origin, destination, date) ==
    LET n == Len(flightOffers)
        maxFlights == Min(5, n)
    IN  IF n = 0
        THEN "I couldn't find any flights from " \o origin \o " to " \o destination
             \o " on " \o date \o ". Would you like to try different dates or locations?"
        ELSE "I found " \o ToString(n) \o " flight option" \o (IF n > 1 THEN "s" ELSE "")
             \o " from " \o origin \o " to " \o destination \o " on " \o date \o ":\n"
             \o flightOptions(flightOffers, 1, maxFlights)
             \o (IF n > maxFlights
                 THEN "... and " \o ToString(n - maxFlights) \o " more options available.\n"
                 ELSE "")
             \o "Would you like to book any of these flights or see more options?"

FlightUnavailableReply ==
    "I'd be happy to help you find flights, but the flight search service is currently unavailable."

FlightNeedCitiesReply ==
    "I'd be happy to search for flights for you. Please provide both the departure city and destination city."

FlightHandlerErrorReply ==
    "I encountered an issue while searching for flights. Please try again with more specific details."

\* handleFlightIntent, lines 631-674: the reply for an error of the search.
flightCatch(params, message, errorDetail) ==
    IF includes(message, "Authentication failed")
    THEN "The flight search service is not properly configured. Please check your Amadeus API credentials."
    ELSE IF includes(message, "No flights found")
    THEN "I couldn't find any flights from " \o params.origin \o " to " \o params.destination
         \o " on " \o params.departDate \o ". This could be because:"
    ELSE IF includes(errorDetail, "INVALID FORMAT")
            \/ includes(errorDetail, "must be a 3-letter code")
    THEN "I'm having trouble finding the airport codes for your cities. Can you provide more specific information?"
    ELSE IF errorDetail # ""
    THEN "I encountered an issue while searching for flights: " \o errorDetail
         \o ". Please try again with more specific locations."
    ELSE "I encountered an issue while searching for flights. "
         \o (IF message # "" THEN message
             ELSE "Please try again with specific airport codes if possible.")

\* handleFlightIntent from line 608 on: the search with both codes resolved.
searchFlightsStart(params, originCode, destinationCode, ops) ==
    IF originCode = "" \/ destinationCode = ""
    THEN Failed(flightCatch(params, "Invalid airport codes", ""), ops)
    ELSE LET r == searchFlights(originCode, destinationCode, "call", NoResponse)
             ops2 == Append(ops, Call("searchFlights", originCode, destinationCode))
         IN  IF r.kind = "throw" THEN Failed(flightCatch(params, r.message, r.errors), ops2)
             ELSE Pending("searchFlights", r.request, ops2,
                          [NoLocals EXCEPT !.params = params, !.originCode = originCode,
                                           !.destinationCode = destinationCode])

\* handleFlightIntent from line 601 on: the destination code, then the search.
destinationStart(params, originCode, ops) ==
    LET d == getIATACode(params.destination, "call", NoResponse)
        ops2 == Append(ops, Call("getIATACode", params.destination, ""))
    IN  IF d.kind = "throw" THEN Failed(FlightHandlerErrorReply, ops2)
        ELSE IF d.kind = "return" THEN searchFlightsStart(params, originCode, d.data, ops2)
        ELSE Pending("lookupDest", d.request, ops2,
                     [NoLocals EXCEPT !.params = params, !.originCode = originCode])

\* handleFlightIntent from line 585 on: the parameters extracted.
flightParamsStart(params) ==
    IF params.origin = "" \/ params.destination = ""
    THEN Reply(FlightNeedCitiesReply, << >>)
    ELSE IF params.departDate = ""
    THEN Reply("I found that you want to travel from " \o params.origin \o " to "
               \o params.destination \o ". What date would you like to depart?", << >>)
    ELSE LET o == getIATACode(params.origin, "call", NoResponse)
             ops == << Call("getIATACode", params.origin, "") >>
         IN  IF o.kind = "throw" THEN Failed(FlightHandlerErrorReply, ops)
             ELSE IF o.kind = "return" THEN destinationStart(params, o.data, ops)
             ELSE Pending("lookupOrigin", o.request, ops, [NoLocals EXCEPT !.params = params])

handleFlightIntent(messages, stage, resp, locals) ==
    IF stage = "call"
    THEN IF lastUserMessage(messages) = NoMessage
         THEN Reply("Please provide details about your flight search.", << >>)
         ELSE IF ~isClientInitialized THEN Failed(FlightUnavailableReply, << >>)
         ELSE flightParamsStart(extractFlightParams(lastUserMessage(messages).content))
    ELSE IF stage = "lookupOrigin"
    THEN destinationStart(locals.params,
                          getIATACode(locals.params.origin, "locations", resp).data, << >>)
    ELSE IF stage = "lookupDest"
    THEN searchFlightsStart(locals.params, locals.originCode,
                            getIATACode(locals.params.destination, "locations", resp).data,
                            << >>)
    ELSE LET r == searchFlights(locals.originCode, locals.destinationCode,
                                "flightOffersSearch", resp)
             ended == << Call("searchFlightsEnded", r.kind, ToString(resp.status)) >>
         IN  IF r.kind = "throw"
             THEN Failed(flightCatch(locals.params, r.message, r.errors), ended)
             ELSE Reply(formatFlightResponse(r.data, locals.params.origin,
                                             locals.params.destination,
                                             locals.params.departDate), ended)

\* A hotel offer of the provider: the name of its hotel ("" when absent), and
\* its offers[0]: "priced", "unpriced" (no price object) or "none".
HotelOffer(name) == [name |-> name, offer |-> "priced"]

\* line 890: offer.price.currency of an offer with no price object
HotelPriceError == "Cannot read properties of undefined (reading 'currency')"

\* The loop of lines 876-920 throws: it has no try block of its own.
hotelFormatThrows(hotelOffers) ==
    \E i \in 1..Len(hotelOffers) : i <= 3 /\ hotelOffers[i].offer = "unpriced"

\* handleHotelIntent, lines 876-920: the loop over the first maxHotels offers.
RECURSIVE hotelEntries(_, _, _)
hotelEntries(hotelOffers, i, maxHotels) ==
    IF i > maxHotels THEN ""
    ELSE "**" \o ToString(i) \o ". "
         \o (IF hotelOffers[i].name # "" THEN hotelOffers[i].name ELSE "Hotel") \o "**\n"
         \o hotelEntries(hotelOffers, i + 1, maxHotels)

\* handleHotelIntent, lines 864-923: the reply for the offers found.
formatHotelResponse(hotelOffers, city, adults) ==
    IF Len(hotelOffers) = 0
    THEN "I couldn't find any available hotels in " \o city
         \o " for those dates. Would you like to try different dates or a nearby city?"
    ELSE "I found " \o ToString(Len(hotelOffers)) \o " hotels in " \o city \o ":\n"
         \o "Guests: " \o ToString(adults) \o " adult" \o (IF adults > 1 THEN "s" ELSE "") \o "\n"
         \o hotelEntries(hotelOffers, 1, Min(3, Len(hotelOffers)))
         \o "Would you like more details about any of these hotels or to modify your search criteria?"

HotelUnavailableReply ==
    "I'd be happy to help you find hotels, but the hotel search service is currently unavailable."

HotelNeedCityReply ==
    "I'd be happy to help you find hotels. Which city are you looking to stay in?"

\* handleHotelIntent, lines 925-935: the reply for an error of the search.
hotelCatch(city, message) ==
    IF includes(message, "Authentication failed")
    THEN "The hotel search service is not properly configured. Please check your Amadeus API credentials."
    ELSE IF includes(message, "Invalid city code") \/ includes(message, "Unable to find city code")
    THEN "I couldn't find any hotels in " \o city
         \o ". The city might be misspelled or not available in our database."
    ELSE "I encountered an issue searching for hotels in " \o city \o ": "
         \o (IF message # "" THEN message ELSE "Please try again with more specific details.")

\* lines 859-862: an error of searchHotels is wrapped and thrown again
hotelSearchFailed(message) ==
    "Hotel search failed: " \o (IF message # "" THEN message ELSE "Unknown error")

\* handleHotelIntent from line 831 on: the search with the city code resolved.
searchHotelsStart(city, adults, cityCode, ops) ==
    IF cityCode = ""
    THEN Failed(hotelCatch(city, "Unable to find city code for " \o city), ops)
    ELSE LET r == searchHotels(cityCode, "call", NoResponse)
             ops2 == Append(ops, Call("searchHotels", cityCode, ToString(adults)))
         IN  IF r.kind = "throw"
             THEN Failed(hotelCatch(city, hotelSearchFailed(r.message)), ops2)
             ELSE Pending(r.stage, r.request, ops2,
                          [NoLocals EXCEPT !.city = city, !.adults = adults,
                                           !.cityCode = cityCode])

\* handleHotelIntent from line 788 on: the city and the guests extracted.
hotelParamsStart(city, adults) ==
    IF city = "" THEN Reply(HotelNeedCityReply, << >>)
    ELSE LET c == getIATACode(city, "call", NoResponse)
             ops == << Call("getIATACode", city, "") >>
         IN  IF c.kind = "throw"
             THEN Failed("I encountered an issue while searching for hotels: " \o c.message,
                         ops)
             ELSE IF c.kind = "return" THEN searchHotelsStart(city, adults, c.data, ops)
             ELSE Pending("lookupCity", c.request, ops,
                          [NoLocals EXCEPT !.city = city, !.adults = adults])

handleHotelIntent(messages, stage, resp, locals) ==
    IF stage = "call"
    THEN IF lastUserMessage(messages) = NoMessage
         THEN Reply("Please provide details about your hotel search.", << >>)
         ELSE IF ~isClientInitialized THEN Failed(HotelUnavailableReply, << >>)
         ELSE hotelParamsStart(extractCity(lastUserMessage(messages).content),
                               extractAdults(lastUserMessage(messages).content))
    ELSE IF stage = "lookupCity"
    THEN searchHotelsStart(locals.city, locals.adults,
                           getIATACode(locals.city, "locations", resp).data, << >>)
    ELSE LET r == searchHotels(locals.cityCode, stage, resp)
             answered == << Call("searchHotelsAnswered", stage, ToString(resp.status)) >>
         IN  IF r.kind = "throw"
             THEN Failed(hotelCatch(locals.city, hotelSearchFailed(r.message)), answered)
             ELSE IF r.kind = "await" THEN Pending(r.stage, r.request, answered, locals)
             ELSE IF hotelFormatThrows(r.data)
             THEN Failed(hotelCatch(locals.city, HotelPriceError), answered)
             ELSE Reply(formatHotelResponse(r.data, locals.city, locals.adults), answered)

FirstTurnGreeting ==
    "Hello! I'm your AI travel assistant. I can help you plan trips, find flights, book hotels, and create amazing itineraries. What would you like to explore today?"

CapabilitiesReply ==
    "I can help you with a variety of travel-related tasks, including:"

GreetingReply ==
    "Hello! How can I assist you with your travel plans today? Are you looking for flights, hotels, or some travel inspiration?"

BookingReply ==
    "I can help you with flight bookings! To proceed, I'll need:"

\* /^(hi|hello|hey|greetings|what can you do|help me|how does this work)$/i
\* tested on the trimmed content
isGreeting(content) ==
    toLowerCase(trim(content)) \in
        {"hi", "hello", "hey", "greetings", "what can you do", "help me",
         "how does this work"}

\* The dispatch test with a threshold of 0.75.
dispatchesAbove75(travelIntent) ==
    travelIntent # NullIntent /\ travelIntent.confidence > 75

\* travelIntent && travelIntent.confidence > 0.65, in hundredths
dispatches(travelIntent) ==
    travelIntent # NullIntent /\ travelIntent.confidence > 65

FlightStages == {"lookupOrigin", "lookupDest", "searchFlights"}

\* The first-message test with the length of the history left out.
isFirstTurnNoMessage(messages) == lastUserMessage(messages) = NoMessage

\* !userMessage || messages.length <= 1
isFirstTurn(messages) ==
    lastUserMessage(messages) = NoMessage \/ Len(messages) <= 1

\* A failed handler's reply replaced by generic generation.
handlerResultOrGeneric(r, messages) ==
    IF r.kind = "return" /\ \E i \in 1..Len(r.calls) : r.calls[i].op = "HandlerFailed"
    THEN [generateStandardResponse(messages, "call", NoResponse) EXCEPT !.calls = r.calls \o @]
    ELSE r

\* return await this.handleFlightIntent(...): the reply of the handler is the
\* reply of generateResponse.
handlerResult(r, messages) == r

\* The branch of generateResponse a step runs in: on a call the branch that
\* lines 1006-1065 select, on a resumption the branch that awaits.
branchOf(messages, stage) ==
    IF stage = "llm" THEN "generic"
    ELSE IF stage \in FlightStages THEN "flight"
    ELSE IF stage # "call" THEN "hotel"
    ELSE IF ~openaiConfigured THEN "static"
    ELSE IF isFirstTurn(messages) THEN "first"
    ELSE IF isGreeting(lastUserMessage(messages).content) THEN "greeting"
    ELSE IF dispatches(detectTravelIntent(lastUserMessage(messages).content))
            /\ detectTravelIntent(lastUserMessage(messages).content).intentType
               \in {"flight", "hotel", "booking"}
    THEN detectTravelIntent(lastUserMessage(messages).content).intentType
    ELSE "generic"

\* The booking case of the switch placing a flight order with the provider
\* before it returns its reply.
generateResponseInOrdering(branch, messages, stage, resp, locals) ==
    LET entered(handler) ==
            IF stage # "call" THEN << >>
            ELSE << Call("detectTravelIntent", lastUserMessage(messages).content, "") >>
                 \o (IF handler = "" THEN << >> ELSE << Call(handler, "", "") >>)
        With(ops, r) == [r EXCEPT !.calls = ops \o r.calls]
    IN  IF branch = "static"
        THEN Reply(getFallbackResponse(messages), << Call("getFallbackResponse", "", "") >>)
        ELSE IF branch = "first" THEN Reply(FirstTurnGreeting, << >>)
        ELSE IF branch = "greeting"
        THEN IF includes(toLowerCase(lastUserMessage(messages).content), "what can you do")
             THEN Reply(CapabilitiesReply, << >>)
             ELSE Reply(GreetingReply, << >>)
        ELSE IF branch = "flight"
        THEN With(entered("handleFlightIntent"),
                  handlerResult(handleFlightIntent(messages, stage, resp, locals), messages))
        ELSE IF branch = "hotel"
        THEN With(entered("handleHotelIntent"),
                  handlerResult(handleHotelIntent(messages, stage, resp, locals), messages))
        ELSE IF branch = "booking"
        THEN [Reply(BookingReply, entered("createFlightBooking"))
                EXCEPT !.request = Req("booking.flightOrders.post", "", "")]
        ELSE With(entered(""), generateStandardResponse(messages, stage, resp))

\* The step of generateResponse in a branch.  A call that reaches line 1044
\* invokes the classifier first, and a dispatch invokes the handler.
generateResponseIn(branch, messages, stage, resp, locals) ==
    LET entered(handler) ==
            IF stage # "call" THEN << >>
            ELSE << Call("detectTravelIntent", lastUserMessage(messages).content, "") >>
                 \o (IF handler = "" THEN << >> ELSE << Call(handler, "", "") >>)
        With(ops, r) == [r EXCEPT !.calls = ops \o r.calls]
    IN  IF branch = "static"
        THEN Reply(getFallbackResponse(messages), << Call("getFallbackResponse", "", "") >>)
        ELSE IF branch = "first" THEN Reply(FirstTurnGreeting, << >>)
        ELSE IF branch = "greeting"
        THEN IF includes(toLowerCase(lastUserMessage(messages).content), "what can you do")
             THEN Reply(CapabilitiesReply, << >>)
             ELSE Reply(GreetingReply, << >>)
        ELSE IF branch = "flight"
        THEN With(entered("handleFlightIntent"),
                  handlerResult(handleFlightIntent(messages, stage, resp, locals), messages))
        ELSE IF branch = "hotel"
        THEN With(entered("handleHotelIntent"),
                  handlerResult(handleHotelIntent(messages, stage, resp, locals), messages))
        ELSE IF branch = "booking" THEN Reply(BookingReply, entered(""))
        ELSE With(entered(""), generateStandardResponse(messages, stage, resp))

generateResponse(messages, stage, resp, locals) ==
    generateResponseIn(branchOf(messages, stage), messages, stage, resp, locals)

(***************************************************************************)
(* bookingController.createBooking and confirmPrice.                       *)
(***************************************************************************)
\* A flight offer: which object it is and its price.total string; prices
\* with no price object have hasPrice FALSE.
Offer(id, total) == [id |-> id, total |-> total, hasPrice |-> TRUE, hasSegments |-> TRUE]

NoOffer == [id |-> "", total |-> "", hasPrice |-> FALSE, hasSegments |-> FALSE]

NaN == [nan |-> TRUE, cents |-> 0]

Num(cents) == [nan |-> FALSE, cents |-> cents]

\* parseFloat of a price string, in cents: the longest prefix of the form
\* digits[.digits]; Not-a-Number when there is none.  Prices carry at most
\* two decimals.
parseFloat(str) ==
    LET t == trimStart(str)
        i == runEnd(t, 1, DigitChars)
        f == IF CharAt(t, i + 1) = "." THEN runEnd(t, i + 2, DigitChars) ELSE i
        frac == slice(slice(t, i + 2, f) \o "00", 1, 2)
    IN  IF i = 0 /\ f <= i + 1 THEN NaN
        ELSE Num(100 * parseInt(slice(t, 1, i)) + parseInt(frac))

Abs(n) == IF n < 0 THEN -n ELSE n

\* The gate without Math.abs: only a price that dropped is a change.
priceChangedSigned(originalPrice, confirmedPrice, above) ==
    /\ ~originalPrice.nan /\ ~confirmedPrice.nan
    /\ LET d == originalPrice.cents - confirmedPrice.cents
       IN  d > 1 \/ (d = 1 /\ above)

\* Math.abs(originalPrice - confirmedPrice) > 0.01 on doubles: a difference
\* of exactly one cent compares either way with the operands (100.01 - 100
\* exceeds 0.01, 0.02 - 0.01 does not), so `above` decides it; a comparison
\* with Not-a-Number is false.
priceChanged(originalPrice, confirmedPrice, above) ==
    /\ ~originalPrice.nan /\ ~confirmedPrice.nan
    /\ LET d == Abs(originalPrice.cents - confirmedPrice.cents)
       IN  d > 1 \/ (d = 1 /\ above)

Res(status, error) == [status |-> status, error |-> error]

\* The catch block of createBooking (lines 84-106) on a thrown error.  An
\* error without a message makes error.message.includes throw in turn and the
\* request is left without a response (status 0).
bookingCatch(message) ==
    IF message = "" THEN Res(0, "unhandled")
    ELSE IF includes(message, "Price has changed") THEN Res(409, "PRICE_CHANGED")
    ELSE IF includes(message, "self-service mode") THEN Res(403, "PAYMENT_NOT_ALLOWED")
    ELSE Res(500, "BOOKING_FAILED")

\* Booking the offer the client selected instead of the confirmed one.
offerToBookSelected(selectedOffer, confirmedOffer) == selectedOffer

\* The offer createBooking hands to createFlightBooking (lines 64-65)
offerToBook(selectedOffer, confirmedOffer) == confirmedOffer

TypeErrorMessage == "Cannot read properties of undefined (reading 'total')"

\* createBooking as a coroutine over its two awaits.  The result is
\* [stage, res, request, invoked, confirmedOffer]: `invoked` are the adapter
\* methods this run called.
BkNext(stage, res, request, invoked, confirmedOffer) ==
    [stage |-> stage, res |-> res, request |-> request, invoked |-> invoked,
     confirmedOffer |-> confirmedOffer]

createBooking(selectedOffer, confirmedOffer0, stage, resp, above) ==
    IF stage = "call"
    THEN IF selectedOffer = NoOffer
         THEN BkNext("done", Res(400, "No flight selected"), NoReq, << >>, NoOffer)
         ELSE LET r == confirmFlightPrice(selectedOffer, "call", NoResponse)
              IN  IF r.kind = "throw"
                  THEN BkNext("done", bookingCatch(r.message), NoReq,
                              << "confirmFlightPrice" >>, NoOffer)
                  ELSE BkNext("pricing", Res(0, ""), r.request,
                              << "confirmFlightPrice" >>, NoOffer)
    ELSE IF stage = "pricing"
    THEN LET r == confirmFlightPrice(selectedOffer, "pricing", resp)
         IN  IF r.kind = "throw"
             THEN BkNext("done", bookingCatch(r.message), NoReq, << >>, NoOffer)
             ELSE IF Len(r.data) = 0
             THEN BkNext("done", Res(400, "Could not confirm flight price"), NoReq,
                         << >>, NoOffer)
             ELSE LET confirmedOffer == r.data[1]
                  IN  IF ~selectedOffer.hasPrice \/ ~confirmedOffer.hasPrice
                      THEN BkNext("done", bookingCatch(TypeErrorMessage), NoReq,
                                  << >>, confirmedOffer)
                      ELSE IF priceChanged(parseFloat(selectedOffer.total),
                                           parseFloat(confirmedOffer.total), above)
                      THEN BkNext("done", Res(409, "PRICE_CHANGED"), NoReq,
                                  << >>, confirmedOffer)
                      ELSE LET b == createFlightBooking(
                                        offerToBook(selectedOffer, confirmedOffer),
                                        "call", NoResponse)
                           IN  IF b.kind = "throw"
                               THEN BkNext("done", bookingCatch(b.message), NoReq,
                                           << "createFlightBooking" >>, confirmedOffer)
                               ELSE BkNext("flightOrders", Res(0, ""), b.request,
                                           << "createFlightBooking" >>, confirmedOffer)
    ELSE LET b == createFlightBooking(offerToBook(selectedOffer, confirmedOffer0),
                                      "flightOrders", resp)
         IN  IF b.kind = "throw"
             THEN BkNext("done", bookingCatch(b.message), NoReq, << >>, confirmedOffer0)
             ELSE BkNext("done", Res(201, ""), NoReq, << >>, confirmedOffer0)

\* confirmPrice as a coroutine over its await; the response body reports
\* priceChanged, here in the error field of a 200 result.
confirmPrice(flightOffer, stage, resp, above) ==
    IF stage = "call"
    THEN IF flightOffer = NoOffer
         THEN BkNext("done", Res(400, "Flight offer is required"), NoReq, << >>, NoOffer)
         ELSE LET r == confirmFlightPrice(flightOffer, "call", NoResponse)
              IN  IF r.kind = "throw"
                  THEN BkNext("done", Res(500, "Failed to confirm price"), NoReq,
                              << "confirmFlightPrice" >>, NoOffer)
                  ELSE BkNext("confirmOnly", Res(0, ""), r.request,
                              << "confirmFlightPrice" >>, NoOffer)
    ELSE LET r == confirmFlightPrice(flightOffer, "pricing", resp)
         IN  IF r.kind = "throw" \/ (Len(r.data) > 0 /\ ~r.data[1].hasPrice)
                \/ (Len(r.data) > 0 /\ ~flightOffer.hasPrice)
             THEN BkNext("done", Res(500, "Failed to confirm price"), NoReq, << >>, NoOffer)
             ELSE IF Len(r.data) = 0
             THEN BkNext("done", Res(400, "Could not confirm price"), NoReq, << >>, NoOffer)
             ELSE BkNext("done",
                         Res(200, IF priceChanged(parseFloat(flightOffer.total),
                                                  parseFloat(r.data[1].total), above)
                                  THEN "priceChanged" ELSE ""),
                         NoReq, << >>, r.data[1])

(***************************************************************************)
(* The booking routes as actions: one request per behaviour.               *)
(***************************************************************************)
AdapterIdle ==
    [method |-> "", a |-> "", stage |-> "idle", flagAtCall |-> FALSE, netAtCall |-> 0,
     kind |-> "", message |-> "", n |-> 0, authFailedAt |-> 0]

BookingIdle ==
    [route |-> "", stage |-> "idle", selectedOffer |-> NoOffer,
     confirmedOffer |-> NoOffer, res |-> Res(0, ""), invoked |-> << >>]

SelectedTotals == {"100.00", "100.01", "abc"}

SelectedOffers ==
    { Offer("selected", t) : t \in SelectedTotals }
    \cup { NoOffer, [id |-> "selected", total |-> "", hasPrice |-> FALSE] }

ConfirmedTotals == {"100.00", "100.01", "100.02", "99.90", ""}

ConfirmedOffers ==
    { Offer("confirmed", t) : t \in ConfirmedTotals }
    \cup { [id |-> "confirmed", total |-> "", hasPrice |-> FALSE] }

PricingResponses ==
    { Ok(<< o >>) : o \in ConfirmedOffers }
    \cup { Ok(<< >>), Err(400, PriceChangedCode, "PRICE CHANGED", "fare no longer available"),
           Err(400, 477, "INVALID FORMAT", "bad offer"), Err(401, 38190, "", ""),
           NetworkError }

OrderResponses ==
    { Ok(<< >>), Err(400, PriceChangedCode, "PRICE CHANGED", ""),
      Err(400, InvalidPassengerCode, "INVALID DATA", ""),
      Err(400, 477, "INVALID FORMAT", ""), Err(400, 141, "SYSTEM ERROR", ""),
      Err(500, 141, "", ""), NetworkError }

send(request) == IF request = NoReq THEN net ELSE Append(net, request)

BkApply(route, selectedOffer, r) ==
    /\ bk' = [route |-> route, stage |-> r.stage, selectedOffer |-> selectedOffer,
              confirmedOffer |-> r.confirmedOffer, res |-> r.res,
              invoked |-> bk.invoked \o r.invoked]
    /\ net' = send(r.request)
    /\ UNCHANGED << serviceVars, ad >>
    /\ UNCHANGED chatVars

createBookingRequest ==
    /\ bk.stage = "idle"
    /\ \E selectedOffer \in SelectedOffers :
          BkApply("createBooking", selectedOffer,
                  createBooking(selectedOffer, NoOffer, "call", NoResponse, FALSE))

createBookingPriced ==
    /\ bk.stage = "pricing"
    /\ \E resp \in PricingResponses, above \in BOOLEAN :
          BkApply("createBooking", bk.selectedOffer,
                  createBooking(bk.selectedOffer, NoOffer, "pricing", resp, above))

\* The booking request sent again when the provider did not answer 200.
createBookingOrderedRetried ==
    /\ bk.stage = "flightOrders"
    /\ \E resp \in OrderResponses :
          IF resp.status # 200 /\ Len(net) < 8
          THEN BkApply("createBooking", bk.selectedOffer,
                       BkNext("flightOrders", Res(0, ""),
                              Req("booking.flightOrders.post", bk.confirmedOffer.id,
                                  bk.confirmedOffer.total),
                              << "createFlightBooking" >>, bk.confirmedOffer))
          ELSE BkApply("createBooking", bk.selectedOffer,
                       createBooking(bk.selectedOffer, bk.confirmedOffer, "flightOrders",
                                     resp, FALSE))

createBookingOrdered ==
    /\ bk.stage = "flightOrders"
    /\ \E resp \in OrderResponses :
          BkApply("createBooking", bk.selectedOffer,
                  createBooking(bk.selectedOffer, bk.confirmedOffer, "flightOrders",
                                resp, FALSE))

confirmPriceRequest ==
    /\ bk.stage = "idle"
    /\ \E flightOffer \in SelectedOffers :
          BkApply("confirmPrice", flightOffer, confirmPrice(flightOffer, "call", NoResponse, FALSE))

confirmPricePriced ==
    /\ bk.stage = "confirmOnly"
    /\ \E resp \in PricingResponses, above \in BOOLEAN :
          BkApply("confirmPrice", bk.selectedOffer,
                  confirmPrice(bk.selectedOffer, "pricing", resp, above))

\* The concurrent requests of one conversation.
Tasks == {1, 2}

\* A request not yet received: `u` is the content of its user turn and `at`
\* the row of the table that holds it.
TaskIdle ==
    [pc |-> "idle", u |-> "", at |-> 0, http |-> 0, msgs |-> << >>, reply |-> "",
     calls |-> << >>, hl |-> NoLocals]

TasksIdle == [t \in Tasks |-> TaskIdle]

\* 2026-11-06T12:00Z, on a runtime at UTC whose Date rejects what is not a
\* format of the language.
ClockAtStart == [now |-> 24 * dayNumber(2026, 11, 6) + 12, tz |-> 0, parse |-> "nan"]

ChatIdle ==
    /\ store = << >> /\ emitted = << >> /\ updatedAt = 0 /\ http = 0 /\ pc = "idle"
    /\ msgs = << >> /\ reply = "" /\ calls = << >>
    /\ hl = NoLocals
    /\ tasks = TasksIdle
    /\ clock = ClockAtStart

InitBooking ==
    /\ \E credentials \in BOOLEAN : AmadeusConstructed(credentials)
    /\ openaiConfigured \in BOOLEAN
    /\ ChatIdle
    /\ bk = BookingIdle
    /\ ad = AdapterIdle

NextBooking ==
    \/ testAuth
    \/ createBookingRequest
    \/ createBookingPriced
    \/ createBookingOrdered
    \/ confirmPriceRequest
    \/ confirmPricePriced

SpecBooking == InitBooking /\ [][NextBooking]_vars

(***************************************************************************)
(* The adapter called directly, as the routes and services of the backend  *)
(* call it: one call per behaviour.                                        *)
(***************************************************************************)
AdapterMethods ==
    { "searchFlights", "searchHotels", "getHotelList", "searchPointsOfInterest",
      "lookupCity", "confirmFlightPrice", "createFlightBooking", "bookHotel" }

AdapterArgs == { "PAR", "ny" }

AdapterResponses ==
    { Ok(<< >>), Ok(<< Loc("CITY", "PAR") >>),
      Ok(<< [subType |-> "CITY", iataCode |-> "PAR", geoCode |-> FALSE] >>),
      Err(400, 477, "INVALID FORMAT", "must be a 3-letter code"), Err(401, 38190, "", ""),
      Err(404, 1797, "NOT FOUND", ""), NetworkError }

\* The method `method` of the adapter, run from `stage`.
adapterMethod(method, a, stage, resp) ==
    CASE method = "searchFlights" -> searchFlights(a, "LON", stage, resp)
      [] method = "searchHotels" -> searchHotels(a, stage, resp)
      [] method = "getHotelList" -> getHotelList(a, stage, resp)
      [] method = "searchPointsOfInterest" -> searchPointsOfInterest(a, a, stage, resp)
      [] method = "lookupCity" -> lookupCity(a, "CITY,AIRPORT", stage, resp)
      [] method = "confirmFlightPrice" -> confirmFlightPrice(Offer(a, "100.00"), stage, resp)
      [] method = "createFlightBooking" -> createFlightBooking(Offer(a, "100.00"), stage, resp)
      [] OTHER -> bookHotel(a, stage, resp)

\* The calls made of the adapter in one behaviour.
MaxCalls == 2

\* `n` counts the calls, `authFailedAt` is the number of requests that had
\* been sent when a response with status 401 first arrived (0: none has).
AdApply(method, a, flagAtCall, netAtCall, n, authFailedAt, r) ==
    /\ ad' = [method |-> method, a |-> a,
              stage |-> IF r.kind = "await" THEN r.stage ELSE "done",
              flagAtCall |-> flagAtCall, netAtCall |-> netAtCall,
              kind |-> r.kind, message |-> r.message,
              n |-> n, authFailedAt |-> authFailedAt]
    /\ net' = send(r.request)
    /\ UNCHANGED << serviceVars, bk >>
    /\ UNCHANGED chatVars

AdapterCall ==
    /\ ad.stage \in {"idle", "done"} /\ ad.n < MaxCalls
    /\ \E method \in AdapterMethods, a \in AdapterArgs :
          AdApply(method, a, isInitialized, Len(net), ad.n + 1, ad.authFailedAt,
                  adapterMethod(method, a, "call", NoResponse))

AdapterResponse ==
    /\ ad.stage \notin {"idle", "done"}
    /\ \E resp \in AdapterResponses :
          AdApply(ad.method, ad.a, ad.flagAtCall, ad.netAtCall, ad.n,
                  IF resp.status = 401 /\ ad.authFailedAt = 0
                  THEN Len(net) ELSE ad.authFailedAt,
                  adapterMethod(ad.method, ad.a, ad.stage, resp))

InitAdapter ==
    /\ \E credentials \in BOOLEAN : AmadeusConstructed(credentials)
    /\ openaiConfigured \in BOOLEAN
    /\ ChatIdle
    /\ bk = BookingIdle
    /\ ad = AdapterIdle

NextAdapter ==
    \/ testAuth
    \/ AdapterCall
    \/ AdapterResponse

SpecAdapter == InitAdapter /\ [][NextAdapter]_vars

(***************************************************************************)
(* The chat route: ChatController.sendMessage, MessageService and the      *)
(* asynchronous reply task, one request per behaviour.                     *)
(***************************************************************************)
ApologyReply ==
    "I apologize, but I encountered an error processing your request. Please try again."

\* generateAIResponse, lines 98-108: a role that is none of the three becomes user.
formattedMessages(previousMessages) ==
    [i \in 1..Len(previousMessages) |->
        Msg(IF previousMessages[i].role \in {"user", "assistant", "system"}
            THEN previousMessages[i].role ELSE "user",
            previousMessages[i].content)]

\* The conversations a request can arrive in: a new one, and one with a turn.
Histories ==
    { << >>, << Msg("user", "hi"), Msg("assistant", FirstTurnGreeting) >> }

\* The contents a request can carry.
Contents ==
    { "", "hi", "what can you do", "tell me a joke", "cheap flight please",
      "my hotel was bad", "find flights", "flights from ny to la",
      "flights from NY to Paris on June 5", "flight to rome", "hotels in paris",
      "hotel near  5", "hotel rating", "buy a ticket", "Flight and hotel tips",
      "hotels in rome for 3 people", "hotels in rome for 0 adults",
      "hotels in rome for 12 guests" }

MaxOffers == 6

MaxHotels == 4

LookupResponses ==
    { Ok(<< >>), Ok(<< Loc("AIRPORT", "CDG"), Loc("CITY", "PAR") >>),
      Ok(<< Loc("CITY", "PARI") >>), Ok(<< Loc("AIRPORT", "p4r") >>),
      Err(401, 38190, "", ""), NetworkError }

FlightSearchResponses ==
    { Ok([i \in 1..n |-> Offer("offer" \o ToString(i), "100.00")]) : n \in {0, 1, MaxOffers} }
    \cup { Err(400, 477, "INVALID FORMAT", "must be a 3-letter code"),
           Err(400, 425, "INVALID DATE", ""), Err(401, 38190, "", ""),
           Err(404, 1797, "NOT FOUND", ""), NetworkError }

HotelListResponses ==
    { Ok(<< >>), Ok(<< HotelOffer("Ritz") >>), Err(404, 1797, "NOT FOUND", ""), NetworkError }

HotelOfferResponses ==
    { Ok([i \in 1..n |-> HotelOffer(IF i = 1 THEN "Ritz" ELSE "")]) : n \in {0, 1, MaxHotels} }
    \cup { Err(400, 477, "INVALID FORMAT", ""), NetworkError }

CityDetailResponses ==
    { Ok(<< >>), Ok(<< Loc("CITY", "PAR") >>),
      Ok(<< [subType |-> "CITY", iataCode |-> "PAR", geoCode |-> FALSE] >>), NetworkError }

LlmResponses ==
    { Ok(<< "Here is a three day plan for your trip." >>), Ok(<< "" >>), Ok(<< >>),
      Err(429, 0, "rate limit", ""), NetworkError }

\* The responses to the request a stage awaits; the select of the
\* conversation gives its rows, or an error.
ResponsesFor(stage) ==
    IF stage = "select" THEN { Ok(store), NetworkError }
    ELSE IF stage \in {"lookupOrigin", "lookupDest", "lookupCity"} THEN LookupResponses
    ELSE IF stage = "searchFlights" THEN FlightSearchResponses
    ELSE IF stage = "hotelList" THEN HotelListResponses
    ELSE IF stage \in {"hotelOffers", "coordSearch"} THEN HotelOfferResponses
    ELSE IF stage = "cityDetails" THEN CityDetailResponses
    ELSE LlmResponses

TaskStages ==
    { "select", "llm", "lookupOrigin", "lookupDest", "searchFlights", "lookupCity",
      "hotelList", "hotelOffers", "cityDetails", "coordSearch" }

\* createMessage emitting the message it built with no insert and no update
\* of the conversation.
createMessageUnstored(content, role) ==
    /\ emitted' = Append(emitted, Msg(role, content))
    /\ UNCHANGED << store, updatedAt >>

\* createMessage with the insert succeeding (lines 55-74): the row is stored,
\* the update of the conversation's updated_at is requested, and the row the
\* insert returned is emitted.
createMessage(content, role) ==
    /\ store' = Append(store, Msg(role, content))
    /\ updatedAt' = updatedAt + 1
    /\ emitted' = Append(emitted, store'[Len(store')])

\* sendMessage with generateAIResponse awaited: the response is not sent
\* when the reply task starts.
sendMessageAwaitsReply ==
    /\ pc = "idle"
    /\ \E content \in Contents, insertOk \in BOOLEAN :
          IF content = ""
          THEN /\ http' = 400 /\ pc' = "none"
               /\ UNCHANGED << store, emitted, updatedAt >>
          ELSE IF ~insertOk
          THEN /\ http' = 500 /\ pc' = "none"
               /\ UNCHANGED << store, emitted, updatedAt >>
          ELSE /\ createMessage(content, "user")
               /\ http' = 0 /\ pc' = "select"
    /\ UNCHANGED << serviceVars, net, msgs, reply, calls, hl, bk, ad, tasks >>

sendMessage ==
    /\ pc = "idle"
    /\ \E content \in Contents, insertOk \in BOOLEAN :
          IF content = ""
          THEN /\ http' = 400 /\ pc' = "none"
               /\ UNCHANGED << store, emitted, updatedAt >>
          ELSE IF ~insertOk
          THEN /\ http' = 500 /\ pc' = "none"
               /\ UNCHANGED << store, emitted, updatedAt >>
          ELSE /\ createMessage(content, "user")
               /\ http' = 201 /\ pc' = "select"
    /\ UNCHANGED << serviceVars, net, msgs, reply, calls, hl, bk, ad, tasks >>

\* The reply task takes a step g of generateResponse: generateAIResponse goes
\* on to createMessage when the reply is there.
TaskApply(g) ==
    /\ pc' = IF g.kind = "await" THEN g.stage ELSE "persist"
    /\ reply' = IF g.kind = "return" THEN g.reply
                ELSE IF g.kind = "throw" THEN ApologyReply
                ELSE reply
    /\ net' = send(g.request)
    /\ calls' = calls \o g.calls
    /\ hl' = IF g.kind = "await" THEN g.locals ELSE hl

\* generateAIResponse resumes with the response it awaits: after the select
\* it calls generateResponse with the rows (none when the select failed),
\* after a provider or LLM response generateResponse goes on.
generateAIResponse ==
    /\ pc \in TaskStages
    /\ \E resp \in ResponsesFor(pc) :
          /\ msgs' = IF pc # "select" THEN msgs
                     ELSE IF resp.status = 200 THEN formattedMessages(resp.data)
                     ELSE << >>
          /\ TaskApply(generateResponse(msgs', IF pc = "select" THEN "call" ELSE pc,
                                        resp, hl))
    /\ UNCHANGED << serviceVars, store, emitted, updatedAt, http, bk, ad, tasks >>

\* createMessage awaited inside the try block: a failed insert of the reply
\* is caught and the apology is persisted in its place.
persistReplyAwaited ==
    /\ pc = "persist"
    /\ \E insertOk \in BOOLEAN :
          IF insertOk
          THEN createMessage(reply, "assistant") /\ pc' = "done"
          ELSE createMessage(ApologyReply, "assistant") /\ pc' = "done"
    /\ UNCHANGED << serviceVars, net, http, msgs, reply, calls, hl, bk, ad, tasks >>

\* generateAIResponse, line 147: the reply is handed to createMessage and its
\* promise returned; a failed insert rejects the task, which sendMessage's
\* .catch only logs.
persistReply ==
    /\ pc = "persist"
    /\ \E insertOk \in BOOLEAN :
          IF insertOk
          THEN createMessage(reply, "assistant") /\ pc' = "done"
          ELSE pc' = "failed" /\ UNCHANGED << store, emitted, updatedAt >>
    /\ UNCHANGED << serviceVars, net, http, msgs, reply, calls, hl, bk, ad, tasks >>

InitChat ==
    /\ \E credentials \in BOOLEAN : AmadeusConstructed(credentials)
    /\ openaiConfigured \in BOOLEAN
    /\ store \in Histories
    /\ emitted = << >> /\ updatedAt = 0 /\ http = 0 /\ pc = "idle"
    /\ msgs = << >> /\ reply = "" /\ calls = << >> /\ hl = NoLocals
    /\ bk = BookingIdle
    /\ ad = AdapterIdle
    /\ tasks = TasksIdle
    /\ clock = ClockAtStart

NextChat ==
    \/ testAuth
    \/ sendMessage
    \/ generateAIResponse
    \/ persistReply

SpecChat == InitChat /\ [][NextChat]_vars

(***************************************************************************)
(* The classifier called on its own: a message is drawn, and               *)
(* detectTravelIntent is called on it MaxRuns times.  msgs holds the       *)
(* message and calls the results, in order.                                *)
(***************************************************************************)
Vocabulary == { "Book", "reserve", "a", "flight", "hotels", "in", "ticket" }

MaxWords == 3

MaxRuns == 2

\* The messages of up to MaxWords words, the empty and a whitespace-only
\* message, and the contents of the chat requests.
ClassifierInputs ==
    { join(ws) : ws \in UNION { [1..n -> Vocabulary] : n \in 1..MaxWords } }
    \cup { "", "  " } \cup Contents

classify ==
    /\ Len(msgs) = 1 /\ Len(calls) < MaxRuns
    /\ LET travelIntent == detectTravelIntent(msgs[1].content)
       IN  calls' = Append(calls, Call("detectTravelIntent", travelIntent.intentType,
                                       ToString(travelIntent.confidence)))
    /\ UNCHANGED << serviceVars, net, store, emitted, updatedAt, http, pc, msgs, reply, hl, bk, ad,
                    tasks >>

InitClassify ==
    /\ \E credentials \in BOOLEAN : AmadeusConstructed(credentials)
    /\ openaiConfigured = TRUE
    /\ \E message \in ClassifierInputs : msgs = << Msg("user", message) >>
    /\ store = << >> /\ emitted = << >> /\ updatedAt = 0 /\ http = 0 /\ pc = "idle"
    /\ reply = "" /\ calls = << >> /\ hl = NoLocals
    /\ bk = BookingIdle
    /\ ad = AdapterIdle
    /\ tasks = TasksIdle
    /\ clock = ClockAtStart

NextClassify == classify

SpecClassify == InitClassify /\ [][NextClassify]_vars

(***************************************************************************)
(* formatDate called on its own: a date string and a clock are drawn, and  *)
(* formatDate is applied to the string and then to its own result.  msgs   *)
(* holds the string and calls the applications, argument and result.       *)
(***************************************************************************)
DateInputs ==
    { "June 5", "November 5", "November 6", "November 7", "December 25",
      "December 25th", "december 25 2026", "March 1st 2027", "2026-12-25", "2027-01-01" }

Clocks ==
    [now : { 24 * dayNumber(2026, 11, 6) + h : h \in {1, 12, 23} },
     tz : {0 - 5, 0, 2},
     parse : {"nan", "local", "utc"}]

MaxApplications == 2

formatDateOf(dateStr) ==
    calls' = Append(calls, Call("formatDate", dateStr,
                                formatDate(dateStr, clock.now, clock.tz, clock.parse)))

formatDateApplied ==
    /\ Len(msgs) = 1 /\ Len(calls) < MaxApplications
    /\ formatDateOf(IF calls = << >> THEN msgs[1].content ELSE calls[Len(calls)].b)
    /\ UNCHANGED << serviceVars, net, store, emitted, updatedAt, http, pc, msgs, reply, hl, bk, ad,
                    tasks >>

InitDate ==
    /\ AmadeusConstructed(FALSE)
    /\ openaiConfigured = TRUE
    /\ \E dateStr \in DateInputs : msgs = << Msg("user", dateStr) >>
    /\ clock \in Clocks
    /\ store = << >> /\ emitted = << >> /\ updatedAt = 0 /\ http = 0 /\ pc = "idle"
    /\ reply = "" /\ calls = << >> /\ hl = NoLocals
    /\ bk = BookingIdle
    /\ ad = AdapterIdle
    /\ tasks = TasksIdle

NextDate == formatDateApplied

SpecDate == InitDate /\ [][NextDate]_vars

(***************************************************************************)
(* searchFlights called with a departure and a return date: calls holds    *)
(* the dates given and then the dates sent to the provider.                *)
(***************************************************************************)
DepartureDates == { "2026-11-01", "2026-11-05", "2026-11-06", "2026-11-07", "2026-11-20" }

ReturnDates == { "", "2026-10-30", "2026-11-03", "2026-11-06", "2026-11-10", "2026-11-25" }

SearchClocks ==
    [now : { 24 * dayNumber(2026, 11, 6) + h : h \in {1, 12, 23} },
     tz : {0 - 5, 0, 2},
     parse : {"nan"}]

SearchApply(r, sent) ==
    /\ pc' = IF r.kind = "throw" THEN "failed" ELSE "searchFlights"
    /\ net' = send(r.request)
    /\ calls' = IF r.kind = "throw" THEN calls ELSE Append(calls, sent)

searchFlightsDated ==
    /\ pc = "idle" /\ Len(calls) = 1
    /\ SearchApply(searchFlights("JFK", "CDG", "call", NoResponse),
                   Call("flightOffersSearch",
                        departureSent(calls[1].a, clock.now, clock.tz),
                        returnSent(calls[1].a, calls[1].b)))
    /\ UNCHANGED << serviceVars, store, emitted, updatedAt, http, msgs, reply, hl, bk, ad, tasks >>

InitSearch ==
    /\ \E credentials \in BOOLEAN : AmadeusConstructed(credentials)
    /\ openaiConfigured = TRUE
    /\ \E departDate \in DepartureDates, returnDate \in ReturnDates :
          calls = << Call("searchFlights", departDate, returnDate) >>
    /\ clock \in SearchClocks
    /\ store = << >> /\ emitted = << >> /\ updatedAt = 0 /\ http = 0 /\ pc = "idle"
    /\ msgs = << >> /\ reply = "" /\ hl = NoLocals
    /\ bk = BookingIdle
    /\ ad = AdapterIdle
    /\ tasks = TasksIdle

NextSearch ==
    \/ testAuth
    \/ searchFlightsDated

SpecSearch == InitSearch /\ [][NextSearch]_vars

(***************************************************************************)
(* The handlers resumed with the answer of the search: a list of offers is *)
(* drawn, some of them malformed, and the handler formats it.  calls holds *)
(* the search and the shape of its answer, one letter per offer: w for a   *)
(* well-formed offer, s for a flight offer with no segments, n for a hotel *)
(* with no offers, p for an offer with no price.                           *)
(***************************************************************************)
MaxFlightList == 6

MaxHotelList == 4

RECURSIVE concat(_)
concat(ls) == IF ls = << >> THEN "" ELSE ls[1] \o concat(Tail(ls))

Shapes(letters, maxLen) ==
    { concat(ls) : ls \in UNION { [1..n -> letters] : n \in 1..maxLen } }

flightItem(letter, i) ==
    [Offer("offer" \o ToString(i), ToString(100 + i) \o ".00")
        EXCEPT !.hasSegments = letter # "s", !.hasPrice = letter # "p"]

hotelItem(letter, i) ==
    [HotelOffer("Hotel" \o ToString(i))
        EXCEPT !.offer = IF letter = "p" THEN "unpriced"
                         ELSE IF letter = "n" THEN "none" ELSE "priced"]

flightItems(shape) == [i \in 1..Len(shape) |-> flightItem(CharAt(shape, i), i)]

hotelItems(shape) == [i \in 1..Len(shape) |-> hotelItem(CharAt(shape, i), i)]

FormatLocals ==
    [NoLocals EXCEPT !.params = [origin |-> "NY", destination |-> "Paris",
                                 departDate |-> "June 5"],
                     !.originCode = "JFK", !.destinationCode = "CDG",
                     !.city = "paris", !.cityCode = "CDG"]

FormatApply(r) ==
    /\ reply' = r.reply
    /\ calls' = calls \o r.calls
    /\ pc' = "done"

formatResults ==
    /\ pc = "idle" /\ Len(calls) = 1
    /\ FormatApply(IF calls[1].op = "searchFlights"
                   THEN handleFlightIntent(msgs, "searchFlights",
                                           Ok(flightItems(calls[1].a)), FormatLocals)
                   ELSE handleHotelIntent(msgs, "hotelOffers",
                                          Ok(hotelItems(calls[1].a)), FormatLocals))
    /\ UNCHANGED << serviceVars, net, store, emitted, updatedAt, http, msgs, hl, bk, ad, tasks >>

InitFormat ==
    /\ AmadeusConstructed(TRUE)
    /\ openaiConfigured = TRUE
    /\ \/ \E shape \in Shapes({"w", "s", "p"}, MaxFlightList) :
             calls = << Call("searchFlights", shape, "") >>
       \/ \E shape \in Shapes({"w", "n", "p"}, MaxHotelList) :
             calls = << Call("searchHotels", shape, "") >>
    /\ msgs = << Msg("user", "hi"), Msg("assistant", FirstTurnGreeting),
                 Msg("user", "hotels in paris") >>
    /\ clock = ClockAtStart
    /\ store = << >> /\ emitted = << >> /\ updatedAt = 0 /\ http = 0 /\ pc = "idle"
    /\ reply = "" /\ hl = NoLocals
    /\ bk = BookingIdle
    /\ ad = AdapterIdle
    /\ tasks = TasksIdle

NextFormat == formatResults

SpecFormat == InitFormat /\ [][NextFormat]_vars

(***************************************************************************)
(* getIATACode called on its own: a location is drawn and resolved.  msgs  *)
(* holds the location, calls the call (with the provider's flag at the     *)
(* call), the answer of the lookup (its status and the code picked from    *)
(* it) and the outcome; reply is the code returned.                        *)
(***************************************************************************)
Locations ==
    { "paris", "Paris", "France", "uk", "new york city", "york", "Atlantis", "St. Ives",
      "x", " ", "Constructor" }

\* The code the validation of lines 417-425 looks at: "" when there is none.
pickedCode(resp) ==
    IF resp.status = 200 /\ Len(resp.data) > 0 THEN pickIataCode(resp.data) ELSE ""

ResolveApply(r, ghost) ==
    /\ pc' = IF r.kind = "await" THEN "lookupCity"
             ELSE IF r.kind = "throw" THEN "failed" ELSE "done"
    /\ reply' = IF r.kind = "return" THEN r.data ELSE ""
    /\ net' = send(r.request)
    /\ calls' = calls \o ghost

resolve ==
    /\ pc \in {"idle", "lookupCity"}
    /\ \E resp \in (IF pc = "idle" THEN {NoResponse} ELSE LookupResponses) :
          ResolveApply(getIATACode(msgs[1].content,
                                   IF pc = "idle" THEN "call" ELSE "locations", resp),
                       IF pc = "idle"
                       THEN << Call("getIATACode", msgs[1].content,
                                    IF isClientInitialized THEN "initialized"
                                    ELSE "uninitialized") >>
                       ELSE << Call("lookupCityAnswered", ToString(resp.status),
                                    pickedCode(resp)) >>)
    /\ UNCHANGED << serviceVars, store, emitted, updatedAt, http, msgs, hl, bk, ad, tasks >>

InitResolver ==
    /\ \E credentials \in BOOLEAN : AmadeusConstructed(credentials)
    /\ openaiConfigured = TRUE
    /\ \E location \in Locations : msgs = << Msg("user", location) >>
    /\ clock = ClockAtStart
    /\ store = << >> /\ emitted = << >> /\ updatedAt = 0 /\ http = 0 /\ pc = "idle"
    /\ reply = "" /\ calls = << >> /\ hl = NoLocals
    /\ bk = BookingIdle
    /\ ad = AdapterIdle
    /\ tasks = TasksIdle

NextResolver ==
    \/ testAuth
    \/ resolve

SpecResolver == InitResolver /\ [][NextResolver]_vars

(***************************************************************************)
(* The chat route with concurrent requests on one conversation: each       *)
(* request of Tasks runs sendMessage and its own reply task; the table,    *)
(* the socket and the provider are shared.                                 *)
(***************************************************************************)
ConcurrentContents == { "", "tell me a joke", "buy a ticket" }

sendMessageOf(t) ==
    /\ tasks[t].pc = "idle"
    /\ \E content \in ConcurrentContents, insertOk \in BOOLEAN :
          IF content = ""
          THEN /\ tasks' = [tasks EXCEPT ![t].http = 400, ![t].pc = "none"]
               /\ UNCHANGED << store, emitted, updatedAt >>
          ELSE IF ~insertOk
          THEN /\ tasks' = [tasks EXCEPT ![t].http = 500, ![t].pc = "none"]
               /\ UNCHANGED << store, emitted, updatedAt >>
          ELSE /\ createMessage(content, "user")
               /\ tasks' = [tasks EXCEPT ![t].http = 201, ![t].pc = "select",
                                         ![t].u = content, ![t].at = Len(store) + 1]
    /\ UNCHANGED << serviceVars, net, http, pc, msgs, reply, calls, hl, bk, ad >>

\* The reply task of request t takes the step g of generateResponse, called
\* with the history `context`.
TaskApplyOf(t, context, g) ==
    /\ tasks' = [tasks EXCEPT
                    ![t].pc = IF g.kind = "await" THEN g.stage ELSE "persist",
                    ![t].msgs = context,
                    ![t].reply = IF g.kind = "return" THEN g.reply ELSE @,
                    ![t].calls = @ \o g.calls,
                    ![t].hl = IF g.kind = "await" THEN g.locals ELSE @]
    /\ net' = send(g.request)

\* The history the reply task of a request in `task` works on: the rows the
\* select returned (none when it failed), kept for the later steps.
contextOf(task, resp) ==
    IF task.pc # "select" THEN task.msgs
    ELSE IF resp.status = 200 THEN formattedMessages(resp.data)
    ELSE << >>

generateAIResponseOf(t) ==
    /\ tasks[t].pc \in TaskStages
    /\ \E resp \in ResponsesFor(tasks[t].pc) :
          TaskApplyOf(t, contextOf(tasks[t], resp),
                      generateResponse(contextOf(tasks[t], resp),
                                       IF tasks[t].pc = "select" THEN "call" ELSE tasks[t].pc,
                                       resp, tasks[t].hl))
    /\ UNCHANGED << serviceVars, store, emitted, updatedAt, http, pc, msgs, reply, calls, hl, bk, ad >>

persistReplyOf(t) ==
    /\ tasks[t].pc = "persist"
    /\ \E insertOk \in BOOLEAN :
          IF insertOk
          THEN /\ createMessage(tasks[t].reply, "assistant")
               /\ tasks' = [tasks EXCEPT ![t].pc = "done"]
          ELSE /\ tasks' = [tasks EXCEPT ![t].pc = "failed"]
               /\ UNCHANGED << store, emitted, updatedAt >>
    /\ UNCHANGED << serviceVars, net, http, pc, msgs, reply, calls, hl, bk, ad >>

InitConcurrent == InitChat

NextConcurrent ==
    \/ testAuth
    \/ \E t \in Tasks : sendMessageOf(t)
    \/ \E t \in Tasks : generateAIResponseOf(t)
    \/ \E t \in Tasks : persistReplyOf(t)

SpecConcurrent == InitConcurrent /\ [][NextConcurrent]_vars

(***************************************************************************)
(* A session: a chat turn, and a booking request that the client sends     *)
(* when the turn has ended.                                                *)
(***************************************************************************)
turnEnded == pc \in {"done", "failed", "none"}

bookingAfterTurn ==
    /\ turnEnded
    /\ \/ createBookingRequest
       \/ createBookingPriced
       \/ createBookingOrdered
       \/ confirmPriceRequest
       \/ confirmPricePriced

NextSession ==
    \/ testAuth
    \/ sendMessage
    \/ generateAIResponse
    \/ persistReply
    \/ bookingAfterTurn

SpecSession == InitChat /\ [][NextSession]_vars

(***************************************************************************)
(* Properties of the booking flow.                                         *)
(***************************************************************************)
Range(seq) == { seq[i] : i \in 1..Len(seq) }

flightOrdersRequests == { i \in 1..Len(net) : net[i].api = "booking.flightOrders.post" }

pricingRequests == { i \in 1..Len(net) : net[i].api = "shopping.flightOffers.pricing.post" }

\* The confirmed and the selected price are numbers more than 0.01 apart.
priceDiffers ==
    /\ bk.selectedOffer.hasPrice /\ bk.confirmedOffer.hasPrice
    /\ ~parseFloat(bk.selectedOffer.total).nan
    /\ ~parseFloat(bk.confirmedOffer.total).nan
    /\ Abs(parseFloat(bk.selectedOffer.total).cents
           - parseFloat(bk.confirmedOffer.total).cents) > 1

\* C4: in createBooking, whenever confirmFlightPrice returned an offer whose
\* price differs from the selected offer's price by more than 0.01, the
\* request has ended with 409 PRICE_CHANGED and createFlightBooking was not
\* invoked: no booking request was sent.
C4_PriceChangeGate ==
    (bk.route = "createBooking" /\ bk.confirmedOffer # NoOffer /\ priceDiffers)
        => /\ bk.stage = "done"
           /\ bk.res = Res(409, "PRICE_CHANGED")
           /\ "createFlightBooking" \notin Range(bk.invoked)
           /\ flightOrdersRequests = {}

\* A createBooking request whose confirmed price rose by 0.02 and which was
\* answered 409 PRICE_CHANGED.
C4_Witness ==
    /\ bk.route = "createBooking" /\ priceDiffers
    /\ bk.selectedOffer.total = "100.00" /\ bk.confirmedOffer.total = "100.02"
    /\ bk.res = Res(409, "PRICE_CHANGED")

\* C5: whenever createFlightBooking was invoked, the same request had first
\* invoked confirmFlightPrice, which returned a confirmed offer whose price
\* is not more than 0.01 from the selected one, and the offer sent to the
\* booking endpoint is that confirmed offer; when confirmFlightPrice threw or
\* returned no offer there is no confirmed offer and no booking request.
C5_BookingOrder ==
    /\ "createFlightBooking" \in Range(bk.invoked)
          => /\ bk.invoked = << "confirmFlightPrice", "createFlightBooking" >>
             /\ bk.confirmedOffer # NoOffer
             /\ ~priceDiffers
    /\ \A i \in flightOrdersRequests :
          /\ "createFlightBooking" \in Range(bk.invoked)
          /\ \E j \in pricingRequests : j < i
          /\ net[i].a = bk.confirmedOffer.id
          /\ net[i].b = bk.confirmedOffer.total
    /\ bk.confirmedOffer = NoOffer => flightOrdersRequests = {}

\* A booking was made: the pricing request, then the booking request carrying
\* the confirmed offer, answered 201.
C5_Witness ==
    /\ bk.res.status = 201
    /\ flightOrdersRequests # {}
    /\ bk.confirmedOffer.id = "confirmed"
    /\ bk.selectedOffer.total = "100.01" /\ bk.confirmedOffer.total = "100.00"

(***************************************************************************)
(* Properties of the adapter.                                              *)
(***************************************************************************)
\* C6: an adapter call made in a state where isInitialized is false has
\* failed with the not-initialized error, at once, and has sent no request.
C6_FailFast ==
    (ad.stage # "idle" /\ ~ad.flagAtCall)
        => /\ ad.stage = "done"
           /\ ad.kind = "throw"
           /\ ad.message = NotInitializedError
           /\ Len(net) = ad.netAtCall

\* createFlightBooking called after testAuth had cleared the flag of a
\* constructed client: it threw the not-initialized error.
C6_Witness ==
    /\ ad.method = "createFlightBooking" /\ ~ad.flagAtCall /\ client
    /\ authTest = "done"
    /\ ad.kind = "throw" /\ ad.message = NotInitializedError

(***************************************************************************)
(* Properties of the reply pipeline, under SpecChat.                       *)
(***************************************************************************)
called(op) == \E i \in 1..Len(calls) : calls[i].op = op

\* generateResponse has ended for the turn.
returned == pc \in {"persist", "done", "failed"}

\* generateResponse has been called for the turn.
entered == pc \notin {"idle", "none", "select"}

latestContent == lastUserMessage(msgs).content

\* The canned reply that the keywords of the latest user message select.
StaticReply ==
    IF includes(toLowerCase(latestContent), "flight") THEN FallbackFlightReply
    ELSE IF includes(toLowerCase(latestContent), "hotel") THEN FallbackHotelReply
    ELSE FallbackDefaultReply

\* The completions of the LLM that carry a content.
LlmContents ==
    { r.data[1] : r \in { x \in LlmResponses :
                            x.status = 200 /\ Len(x.data) > 0 /\ x.data[1] # "" } }

noPipelineCall ==
    /\ ~called("detectTravelIntent")
    /\ ~called("handleFlightIntent") /\ ~called("handleHotelIntent")
    /\ ~called("generateStandardResponse")
    /\ \A i \in 1..Len(net) : net[i] = testAuthRequest

\* C1: whenever generateResponse has ended, it has returned and not thrown
\* (the catch of generateAIResponse, which puts the apology in the place of a
\* thrown error, was not entered), and its one reply is a non-empty string.
C1_TotalNonEmpty == returned => reply # "" /\ reply # ApologyReply

C1_Witness ==
    /\ pc = "persist" /\ called("handleHotelIntent") /\ called("HandlerFailed")
    /\ reply # HotelUnavailableReply

\* C2: once the reply task of a persisted user turn has ended, an assistant
\* message of the conversation is persisted and emitted after the user turn.
C2_ReplyPersisted ==
    pc \in {"done", "failed"} =>
        /\ store[Len(store)].role = "assistant"
        /\ emitted[Len(emitted)].role = "assistant"

isIata(code) == Len(code) = 3 /\ \A i \in 1..3 : isUpper(CharAt(code, i))

\* C7: every code handed to searchFlights or searchHotels is a string of
\* exactly three uppercase letters.
C7_CodeShape ==
    \A i \in 1..Len(calls) :
        /\ calls[i].op = "searchFlights" => isIata(calls[i].a) /\ isIata(calls[i].b)
        /\ calls[i].op = "searchHotels" => isIata(calls[i].a)

\* C8, as claimed: a history of the current user message alone is answered
\* by the canned greeting, with no classification, handler or LLM call,
\* whatever the configuration.
C8_FirstTurnGreeting ==
    returned /\ Len(msgs) = 1 => reply = FirstTurnGreeting /\ noPipelineCall

\* C8, amended: a history of the current user message alone is answered by
\* the canned greeting when the LLM is configured and by the static canned
\* reply when it is not; in both cases, whatever the content and the state
\* of the provider, with no classification, handler or LLM call.
C8_FirstTurnNoPipeline ==
    entered /\ Len(msgs) = 1 =>
        /\ returned /\ noPipelineCall
        /\ reply = IF openaiConfigured THEN FirstTurnGreeting ELSE StaticReply

C8_Witness ==
    /\ pc = "persist" /\ Len(msgs) = 1 /\ openaiConfigured /\ isInitialized
    /\ latestContent = "flights from NY to Paris on June 5"

\* The category of the turn was dispatched: the flight or hotel handler was
\* called, or the booking instructions are the reply.
dispatchedTo(intentType) ==
    IF intentType = "flight" THEN called("handleFlightIntent")
    ELSE IF intentType = "hotel" THEN called("handleHotelIntent")
    ELSE returned /\ reply = BookingReply

thresholdDispatch ==
    LET travelIntent == detectTravelIntent(latestContent)
    IN  IF travelIntent # NullIntent /\ travelIntent.confidence > 65
        THEN dispatchedTo(travelIntent.intentType)
        ELSE /\ called("generateStandardResponse")
             /\ ~called("handleFlightIntent") /\ ~called("handleHotelIntent")

\* C9, as claimed: on every turn after the first, in every configuration, an
\* intent classified above 0.65 is dispatched to the handler of its category
\* and any other turn goes to generic generation with no handler called.
C9_ThresholdDispatch == entered /\ Len(msgs) > 1 => thresholdDispatch

\* C9, amended: the same of every turn after the first on which the LLM is
\* configured and the message is not one of the bare greeting phrases (for
\* the booking category the dispatch is the reply with the booking
\* instructions); a turn with the LLM not configured, or a bare greeting
\* phrase, is answered without classification and without a handler.
C9_DispatchWhenClassified ==
    entered /\ Len(msgs) > 1 =>
        IF openaiConfigured /\ ~isGreeting(latestContent)
        THEN called("detectTravelIntent") /\ thresholdDispatch
        ELSE returned /\ noPipelineCall

C9_Witness ==
    /\ pc = "persist" /\ Len(msgs) > 1 /\ openaiConfigured
    /\ latestContent = "hotel rating" /\ called("handleHotelIntent")

\* C10: when the LLM is not configured the reply is the static canned reply
\* that the keywords flight, else hotel, of the latest user message select;
\* when generic generation was reached the reply is a completion with a
\* content or, for a call that threw or gave no content, that static reply.
C10_StaticTier ==
    returned =>
        /\ ~openaiConfigured => reply = StaticReply
        /\ called("getFallbackResponse") => reply = StaticReply
        /\ called("generateStandardResponse") =>
              reply \in LlmContents \/ (called("getFallbackResponse") /\ reply = StaticReply)

C10_Witness ==
    /\ pc = "persist" /\ openaiConfigured /\ called("generateStandardResponse")
    /\ called("getFallbackResponse") /\ latestContent = "Flight and hotel tips"
    /\ reply = FallbackFlightReply

(***************************************************************************)
(* Properties of the chat route, under SpecChat.                           *)
(***************************************************************************)
\* The user turn of the request is a row of the table and was emitted.
userTurnPersisted ==
    /\ Len(emitted) > 0 /\ emitted[1].role = "user"
    /\ \E i \in 1..Len(store) : store[i] = emitted[1]

\* C12: sendMessage responds 201 in the step that persists the user turn and
\* starts the reply task, so in every state in which the task waits, has
\* ended or has failed the response is already 201; it responds 201 only
\* when the user turn is persisted; and no later step of the reply task,
\* whatever the LLM, the provider or the table answer, changes the response.
C12_DecoupledAck ==
    /\ [](/\ pc \notin {"idle", "none"} => http = 201
          /\ http = 201 => userTurnPersisted
          /\ pc = "none" => http \in {400, 500} /\ emitted = << >>)
    /\ [][http # 0 => http' = http]_vars

\* The reply task of an acknowledged request has failed: the acknowledgment
\* is the success response still.
C12_Witness ==
    /\ pc = "failed" /\ http = 201 /\ userTurnPersisted
    /\ store[Len(store)].role = "user"

(***************************************************************************)
(* Properties of the provider state, under SpecAdapter.                    *)
(***************************************************************************)
\* C11, as claimed: after construction no step writes the initialized flag.
C11_FlagReadOnly == [][isInitialized' = isInitialized]_vars

\* C11, amended: no adapter call writes the initialized flag; after
\* construction it is written at most once, by the completion of the
\* authorization test the constructor started, which clears it when the test
\* fails; it is never set after construction.
C11_FlagClearedOnlyByAuthTest ==
    [][isInitialized' # isInitialized =>
          /\ authTest = "pending" /\ authTest' = "done"
          /\ isInitialized /\ ~isInitialized'
          /\ client' = client /\ net' = net /\ ad' = ad]_vars

\* An adapter call that was made while the flag was set has ended, and the
\* authorization test has cleared the flag since.
C11_Witness ==
    /\ ad.stage = "done" /\ ad.flagAtCall /\ ad.kind = "return"
    /\ authTest = "done" /\ client /\ ~isInitialized

\* C13: once a provider call has been answered with status 401, no further
\* request is sent to the provider and the adapter is disabled: its calls
\* fail the initialization check.
C13_AuthLatch ==
    ad.authFailedAt > 0 => Len(net) = ad.authFailedAt /\ ~checkInitialization

(***************************************************************************)
(* Properties of the flight search, under SpecChat.                        *)
(***************************************************************************)
\* The flight search of the turn was answered with `status`.
searchAnswered(status) ==
    \E i \in 1..Len(calls) :
        calls[i].op = "searchFlightsEnded" /\ calls[i].b = status

searchThrew ==
    \E i \in 1..Len(calls) : calls[i].op = "searchFlightsEnded" /\ calls[i].a = "throw"

\* C14, as claimed: a flight search answered 404 returns the empty list and
\* raises no error, and the reply is the one formatFlightResponse makes of
\* an empty list.
C14_NotFoundEmptyResult ==
    searchAnswered("404") =>
        /\ ~searchThrew
        /\ reply = formatFlightResponse(<< >>, hl.params.origin, hl.params.destination,
                                        hl.params.departDate)

\* C14, amended: a flight search answered 404 throws the error "No flights
\* found for the given criteria."; handleFlightIntent catches it and the
\* reply of the turn is its no-flights text, naming the origin, destination
\* and date the user gave; nothing is thrown out of the handler.
C14_NotFoundCaught ==
    searchAnswered("404") =>
        /\ searchThrew /\ called("HandlerFailed") /\ returned
        /\ reply = "I couldn't find any flights from " \o hl.params.origin \o " to "
                   \o hl.params.destination \o " on " \o hl.params.departDate
                   \o ". This could be because:"

C14_Witness ==
    /\ pc = "persist" /\ searchAnswered("404")
    /\ hl.params.origin = "NY" /\ hl.params.departDate = "June 5"

(***************************************************************************)
(* Properties of the requests of a session, under SpecSession.             *)
(***************************************************************************)
requestsOf(api) == { i \in 1..Len(net) : net[i].api = api }

\* The hotel offer search of the turn by hotel ids was answered with a failure.
hotelOffersFailed ==
    \E i \in 1..Len(calls) :
        /\ calls[i].op = "searchHotelsAnswered"
        /\ calls[i].a = "hotelOffers" /\ calls[i].b # "200"

flightSearchFailed ==
    \E i \in 1..Len(calls) : calls[i].op = "searchFlightsEnded" /\ calls[i].b # "200"

\* C15, as claimed: after a failed flight search, hotel offer search, price
\* confirmation or booking creation, no further request of the same
\* operation is sent: the failed request is the only one of its operation.
C15_NoRetry ==
    /\ flightSearchFailed =>
          Cardinality(requestsOf("shopping.flightOffersSearch.get")) = 1
    /\ hotelOffersFailed =>
          Cardinality(requestsOf("shopping.hotelOffersSearch.get")) = 1
    /\ Cardinality(pricingRequests) <= 1
    /\ Cardinality(flightOrdersRequests) <= 1

\* C15, amended: flight search, price confirmation and booking creation are
\* each sent at most once in a turn or booking request, failed or not; a
\* hotel offer search by hotel ids is sent at most once, and when it failed
\* it is followed by at most one further hotel offer search, which is by the
\* coordinates of the city.
C15_NoRetryButCoordinates ==
    /\ Cardinality(requestsOf("shopping.flightOffersSearch.get")) <= 1
    /\ Cardinality(pricingRequests) <= 1
    /\ Cardinality(flightOrdersRequests) <= 1
    /\ \A i, j \in requestsOf("shopping.hotelOffersSearch.get") :
          i < j => /\ net[i].a = "hotelIds" /\ net[j].a = "geoCode"
                   /\ hotelOffersFailed

\* A turn whose hotel offer search failed and was made again by coordinates,
\* followed by a booking request whose booking creation failed.
C15_Witness ==
    /\ hotelOffersFailed
    /\ Cardinality(requestsOf("shopping.hotelOffersSearch.get")) = 2
    /\ bk.stage = "done" /\ bk.res.status = 500
    /\ Cardinality(flightOrdersRequests) = 1

(***************************************************************************)
(* Properties of the classifier, under SpecClassify.                       *)
(***************************************************************************)
\* The pattern groups in the order of evaluation: whether group k matches
\* the message, and the result the group is written with.
groupMatches(k, message) ==
    CASE k = 1 -> trim(message) = ""
      [] k = 2 -> greetingPatterns(toLowerCase(message))
      [] k = 3 -> flightPatterns(tokens(toLowerCase(message)))
      [] k = 4 -> hotelPatterns(tokens(toLowerCase(message)))
      [] k = 5 -> bookingPatterns(tokens(toLowerCase(message)))
      [] k = 6 -> /\ includes(toLowerCase(message), "flight")
                  /\ \E w \in {"from", "to"} : includes(toLowerCase(message), w)
      [] k = 7 -> /\ includes(toLowerCase(message), "hotel")
                  /\ \E w \in {"in", "at", "near"} : includes(toLowerCase(message), w)
      [] OTHER -> TRUE

groupResult ==
    << Call("detectTravelIntent", "null", "0"), Call("detectTravelIntent", "null", "0"),
       Call("detectTravelIntent", "flight", "90"), Call("detectTravelIntent", "hotel", "80"),
       Call("detectTravelIntent", "booking", "95"), Call("detectTravelIntent", "flight", "70"),
       Call("detectTravelIntent", "hotel", "70"), Call("detectTravelIntent", "null", "0") >>

firstGroup(message) ==
    CHOOSE k \in 1..8 :
        groupMatches(k, message) /\ \A j \in 1..(k - 1) : ~groupMatches(j, message)

bookingVerbPattern(message) ==
    matchVerbNoun(tokens(toLowerCase(message)), {"book", "reserve", "purchase"},
                  {"ticket", "tickets", "seat", "seats", "flight", "flights"})

\* C18: every message that matches the explicit booking-verb pattern is
\* classified as booking with the booking confidence, also when a flight or
\* hotel pattern matches it.
C18_BookingPrecedence ==
    \A i \in 1..Len(calls) :
        bookingVerbPattern(msgs[1].content) =>
            calls[i].a = "booking" /\ calls[i].b = "95"

(***************************************************************************)
(* Properties of concurrent turns, under SpecConcurrent.                   *)
(***************************************************************************)
\* The row of the latest user message of a history (0: there is none).
lastUserIndex(messages) ==
    SetMax({0} \cup { i \in 1..Len(messages) : messages[i].role = "user" })

\* generateResponse has been called for request t.
enteredOf(t) == tasks[t].pc \notin {"idle", "none", "select"}

\* C17: whenever generateResponse has been called for the user turn of a
\* request, the history it was called with has that user turn as its latest
\* user message.
C17_ReplyFromOwnTurn ==
    \A t \in Tasks :
        enteredOf(t) /\ tasks[t].msgs # << >> =>
            /\ lastUserIndex(tasks[t].msgs) = tasks[t].at
            /\ lastUserMessage(tasks[t].msgs).content = tasks[t].u

(***************************************************************************)
(* Properties of the reply task and the message table, under SpecChat.     *)
(***************************************************************************)
\* The provider and LLM endpoints a chat turn may request: location lookup,
\* flight search, the two steps of hotel search, and the completion.
ChatApis ==
    { "referenceData.locations.get", "shopping.flightOffersSearch.get",
      "referenceData.locations.hotels.byCity.get", "shopping.hotelOffersSearch.get",
      "chat.completions.create" }

\* C27: the chat pipeline never prices, orders or books: every request sent
\* is a location lookup, a flight search, a hotel search or a completion,
\* none of confirmFlightPrice, createFlightBooking and bookHotel is called,
\* and the booking controller stays idle, also for a booking message.
C27_NoBookingSideEffect ==
    /\ \A i \in 1..Len(net) : net[i].api \in ChatApis
    /\ \A i \in 1..Len(calls) :
          calls[i].op \notin {"confirmFlightPrice", "createFlightBooking", "bookHotel"}
    /\ bk = BookingIdle

\* A message classified as booking was answered.
C27_Witness ==
    /\ pc = "done" /\ reply = BookingReply
    /\ \E i \in 1..Len(calls) :
          /\ calls[i].op = "detectTravelIntent"
          /\ detectTravelIntent(calls[i].a).intentType = "booking"

handlerOf(intentType) ==
    IF intentType = "flight" THEN "handleFlightIntent"
    ELSE IF intentType = "hotel" THEN "handleHotelIntent"
    ELSE ""

\* C28: an intent the classifier returns has one of the confidences 0.9,
\* 0.8, 0.95 and 0.7, all above the threshold of 0.65, and one of the
\* categories flight, hotel and booking: a turn that was classified goes to
\* the handler of its category (to the booking reply for booking), and goes
\* to generic generation only when the classification was null.
C28_IntentsAboveThreshold ==
    \A i \in 1..Len(calls) :
        calls[i].op = "detectTravelIntent" =>
            LET travelIntent == detectTravelIntent(calls[i].a)
            IN  /\ travelIntent # NullIntent =>
                      /\ travelIntent.confidence \in {70, 80, 90, 95}
                      /\ travelIntent.confidence > 65
                      /\ travelIntent.intentType \in {"flight", "hotel", "booking"}
                      /\ \A j \in 1..Len(calls) : calls[j].op # "generateStandardResponse"
                      /\ IF travelIntent.intentType = "booking"
                         THEN Len(calls) = i /\ reply = BookingReply
                         ELSE /\ Len(calls) > i
                              /\ calls[i + 1].op = handlerOf(travelIntent.intentType)
                /\ travelIntent = NullIntent =>
                      /\ Len(calls) > i
                      /\ calls[i + 1].op = "generateStandardResponse"

\* A message with the lowest confidence, 0.7, was dispatched to its handler
\* and answered.
C28_Witness ==
    /\ pc = "done" /\ Len(calls) > 1
    /\ calls[1].op = "detectTravelIntent"
    /\ detectTravelIntent(calls[1].a).confidence = 70
    /\ calls[2].op = "handleFlightIntent"

\* C29: a message is emitted only in the step in which its insert succeeded,
\* and the message emitted is the row stored; a step of createMessage whose
\* insert fails ends the request or the task with an error, emits nothing
\* and requests no update of the conversation's updated_at.
C29_PersistBeforePush ==
    [][/\ emitted' # emitted =>
             /\ Len(store') = Len(store) + 1
             /\ emitted' = Append(emitted, store'[Len(store')])
       /\ updatedAt' # updatedAt =>
             /\ Len(store') = Len(store) + 1
             /\ updatedAt' = updatedAt + 1
       /\ (pc = "idle" /\ pc' = "none") \/ (pc = "persist" /\ pc' = "failed") =>
             /\ store' = store /\ emitted' = emitted /\ updatedAt' = updatedAt
             /\ pc = "idle" => http' \in {400, 500}
       /\ store' = store => emitted' = emitted /\ updatedAt' = updatedAt]_vars

\* The user turn was stored, emitted and stamped, and the insert of the reply
\* failed with nothing more emitted or stamped.
C29_Witness ==
    /\ pc = "failed" /\ http = 201
    /\ updatedAt = 1 /\ emitted = << store[Len(store)] >>

\* The guest count the latest user message gives: the digits before adult,
\* adults, people or guests, "" when it gives none.
countGiven == adultsPattern(latestContent)

\* C30, as claimed: the adults value of every call of searchHotels is an
\* integer from 1 to 9, and it is 1 when the message gives no count or a
\* count outside 1..9.
C30_AdultsOneWhenOutOfRange ==
    \A i \in 1..Len(calls) :
        calls[i].op = "searchHotels" =>
            /\ calls[i].b \in { ToString(n) : n \in 1..9 }
            /\ countGiven = "" \/ parseInt(countGiven) \notin 1..9 => calls[i].b = "1"

\* C30, amended: the adults value of every call of searchHotels is an integer
\* from 1 to 9: the count the message gives when that is from 1 to 9, 1 when
\* the message gives no count or a count below 1, and 9 when it gives a count
\* above 9.
C30_AdultsClamped ==
    \A i \in 1..Len(calls) :
        calls[i].op = "searchHotels" =>
            /\ calls[i].b \in { ToString(n) : n \in 1..9 }
            /\ calls[i].b =
                  IF countGiven = "" THEN "1"
                  ELSE IF parseInt(countGiven) < 1 THEN "1"
                  ELSE IF parseInt(countGiven) > 9 THEN "9"
                  ELSE ToString(parseInt(countGiven))

\* A hotel search for a message that asks for 12 guests was called with 9.
C30_Witness ==
    /\ countGiven = "12"
    /\ \E i \in 1..Len(calls) : calls[i].op = "searchHotels" /\ calls[i].b = "9"

rowsOf(rows, role) == { i \in 1..Len(rows) : rows[i].role = role }

C25_FullContext ==
    entered /\ pc # "done" =>
        /\ msgs = formattedMessages(store)
        /\ \E i \in 1..Len(msgs) : msgs[i] = Msg("user", store[Len(store)].content)

(***************************************************************************)
(* Properties of the dates of a flight search, under SpecSearch.           *)
(***************************************************************************)
datesSent == pc = "searchFlights" /\ Len(calls) = 2

\* C24: the departure date sent is not before today, a departure date in the
\* past is sent as tomorrow, and a return date that is sent is not before the
\* departure date sent.
C24_DatesNormalized ==
    datesSent =>
        /\ isoDay(calls[2].a) >= localDay(clock.now, clock.tz)
        /\ isoDay(calls[1].a) < localDay(clock.now, clock.tz) =>
               calls[2].a = tomorrowDate(clock.now)
        /\ calls[2].b # "" => isoDay(calls[2].b) >= isoDay(calls[2].a)

(***************************************************************************)
(* Properties of the formatting of results, under SpecFormat.              *)
(***************************************************************************)
formatted == pc = "done"

flightsFormatted == calls[1].op = "searchFlights"

\* The offers of the answer that are listed: the first 5 flights, 3 hotels.
cap == IF flightsFormatted THEN 5 ELSE 3

listed == { i \in 1..Len(calls[1].a) : i <= cap }

\* The text by which offer i is itemized in the reply.
itemHeading(i) ==
    IF flightsFormatted THEN "**Option " \o ToString(i) \o "**"
    ELSE "**" \o ToString(i) \o ". "

itemText(i) ==
    IF flightsFormatted
    THEN "**Option " \o ToString(i) \o "** Price: USD " \o ToString(100 + i) \o ".00"
    ELSE "**" \o ToString(i) \o ". Hotel" \o ToString(i) \o "**"

\* C22: whatever offers of the list are malformed, the handler returns the
\* formatted reply, with no failure, and every well-formed offer among the
\* first 5 flights (3 hotels) appears in it.
C22_PerItemIsolation ==
    formatted =>
        /\ ~called("HandlerFailed")
        /\ \A i \in listed : CharAt(calls[1].a, i) = "w" => includes(reply, itemText(i))

\* C23: a reply itemizes at most 5 flights (3 hotels), and for a longer list
\* it states the number of offers not shown.
C23_ResultCaps ==
    formatted /\ ~called("HandlerFailed") =>
        /\ \A i \in 1..Len(calls[1].a) : includes(reply, itemHeading(i)) => i <= cap
        /\ Len(calls[1].a) > cap =>
               includes(reply, "and " \o ToString(Len(calls[1].a) - cap) \o " more")

(***************************************************************************)
(* Properties of the location resolver, under SpecResolver.                *)
(***************************************************************************)
lookupsSent ==
    { i \in 1..Len(net) : net[i].api = "referenceData.locations.get" /\ net[i].b # "CITY" }

\* The static-table result for a name: the code of the entry with that name,
\* else of the first entry that contains the name or is contained in it, else
\* the first three letters and digits of the name in upper case.
tableResult(name) ==
    LET lower == toLowerCase(name)
        exact == { i \in 1..Len(airportCodes) : airportCodes[i][1] = lower }
        partial == { i \in 1..Len(airportCodes) :
                       includes(lower, airportCodes[i][1])
                       \/ includes(airportCodes[i][1], lower) }
    IN  IF exact # {} THEN airportCodes[SetMin(exact)][2]
        ELSE IF partial # {} THEN airportCodes[SetMin(partial)][2]
        ELSE toUpperCase(substring0(sanitize(name), 3))

\* The lookup was not made, or gave no code that passes the validation.
lookupUnusable ==
    \/ calls[1].b = "uninitialized"
    \/ Len(calls) = 1
    \/ Len(calls) = 2 /\ (calls[2].a # "200" \/ Len(calls[2].b) # 3)

\* C21: the lookup is called only when the provider is initialized; when the
\* provider is uninitialized or the lookup throws, returns nothing or returns
\* a code that fails validation, the code returned is the static-table result
\* of the country-normalized name; a provider failure never makes the
\* resolver throw.
C21_ResolverFallback ==
    calls # << >> =>
        /\ lookupsSent # {} => calls[1].b = "initialized"
        /\ pc = "failed" <=> trim(msgs[1].content) = ""
        /\ pc = "done" /\ lookupUnusable =>
               reply = tableResult(countryNormalized(msgs[1].content))
        /\ pc = "done" /\ ~lookupUnusable => reply = calls[2].b

(***************************************************************************)
(* Extraction of the search fields.                                        *)
(***************************************************************************)
flightFieldMissing(params) ==
    params.origin = "" \/ params.destination = "" \/ params.departDate = ""

hotelFieldMissing(message) ==
    \/ extractCity(message) = ""
    \/ checkInPattern(message) = ""
    \/ checkOutPattern(message) = ""

\* The handler of the turn went on to the extraction (lines 589 and 756) and
\* a required field was not extracted.
extractionIncomplete ==
    \/ /\ called("handleFlightIntent") /\ reply # FlightUnavailableReply
       /\ flightFieldMissing(extractFlightParams(latestContent))
    \/ /\ called("handleHotelIntent") /\ reply # HotelUnavailableReply
       /\ hotelFieldMissing(latestContent)

\* The questions of lines 592, 596 and 811.
clarifyingQuestion(text) ==
    \/ text \in {FlightNeedCitiesReply, HotelNeedCityReply}
    \/ /\ startsWith(text, "I found that you want to travel from ")
       /\ endsWith(text, ". What date would you like to depart?")

\* C20: when a required search field (flight: origin, destination, departure
\* date; hotel: city, check-in, check-out) is not extracted, the handler
\* returns a clarifying question and makes no location lookup and no provider
\* search in that turn.
C20_ClarifyingQuestion ==
    extractionIncomplete =>
        /\ returned /\ clarifyingQuestion(reply)
        /\ ~called("getIATACode") /\ ~called("searchFlights") /\ ~called("searchHotels")

(***************************************************************************)
(* Properties of formatDate, under SpecDate.                               *)
(***************************************************************************)
\* The string drawn names a day before today (in local time).
denotesPastDay ==
    /\ isNamedDate(tokens(normalizedDate(msgs[1].content, clock.now, clock.tz)))
    /\ dateTime(tokens(normalizedDate(msgs[1].content, clock.now, clock.tz)),
                clock.tz, clock.parse)
          < localMidnight(localDay(clock.now, clock.tz), clock.tz)

\* C19: formatDate applied to its own result returns that result, and the
\* result for a string that names a day before today is tomorrow's date.
C19_DateIdempotent ==
    /\ Len(calls) >= 2 => calls[2].b = calls[1].b
    /\ Len(calls) >= 1 /\ denotesPastDay => calls[1].b = tomorrowDate(clock.now)

Init == InitChat

Next == NextChat

Spec == Init /\ [][Next]_vars
====
